---- MODULE Spec2Model ----
(***************************************************************************)
(* Scout Pro backend (server.js = src/unnamed/part_000, middleware.js):    *)
(* a model of the REST handlers over the document store and the upload     *)
(* directory.  Every request occupies a slot; a handler is cut into steps  *)
(* at its awaits, so that steps of different requests can interleave the   *)
(* way Node's event loop lets them.                                         *)
(***************************************************************************)
EXTENDS Integers, Sequences, FiniteSets, TLC

VARIABLES users, teams, players, reports, files, nextId, req, now,
          hits, seen, stamp, expired, App, timers

\* the limiters' stores (hits) and the record kept of what they were asked and
\* what they let through (seen per limiter and client, stamp per request)
limiterVars == <<hits, seen, stamp>>

\* the React state of the ScoutingApp component and the setTimeout callbacks of
\* its apiCall that have not run yet, oldest first
frontendVars == <<App, timers>>

vars ==
  <<users, teams, players, reports, files, nextId, req, now, limiterVars, expired,
    frontendVars>>

----------------------------------------------------------------------------
(* Bounds of the model *)

\* request slots (requests that can be in flight together)
NumSlots == 2
\* users ever registered
MaxUsers == 2
\* teams, players, reports and files ever created, taken together
MaxCreated == 4

\* steps of the clock
MaxTicks == 3

\* reports stored at a time in the runs that follow single reports
MaxScouted == 2

Slots == 1..NumSlots

----------------------------------------------------------------------------
(* Program constants *)

\* part_000:142
REGISTRATION_CODE == "COACH2024"
\* part_000:25
JWT_SECRET == "your-secret-key"
\* part_000:153  bcrypt.genSalt(10)
BcryptCost == 10
\* part_000:168, 202  expiresIn: '24h', in seconds
TokenTTL == 86400
\* part_000:105  limits.fileSize
FileSizeLimit == 5242880
\* middleware.js:126
RawBodyLimit == 10485760

\* an absent id (no :id in the route, no filter in the query)
NoId == <<>>

----------------------------------------------------------------------------
(* Values requests are built from *)

Emails == {"a@x", "b@x"}
Passwords == {"pw1", "pw2"}
Codes == {REGISTRATION_CODE, "WRONG"}
Salts == {"salt1"}
Names == {"n1", "n2"}

\* ObjectIds: one counter per collection, the collection is part of the id
Oid(coll, n) == <<coll, n>>
\* the ids collection coll has handed out so far
Issued(coll) == {Oid(coll, n) : n \in 1..(nextId[coll] - 1)}

\* the collections of the database
Collections == {"user", "team", "player", "report"}

\* Mongoose casts the id of a query to ObjectId; a string that is none makes the
\* query throw (CastError), which the handler's catch answers
IsObjectId(id) == id[1] \in Collections

\* a string that is no ObjectId
NotAnId == <<"not-an-id", 0>>

\* an id of collection coll that no document ever had
Unknown(coll) == Oid(coll, 0)

----------------------------------------------------------------------------
(* bcryptjs and jsonwebtoken, by what the handlers use of them *)

\* bcrypt.hash(password, salt): the hash embeds cost and salt
BcryptHash(password, salt) ==
  [alg |-> "bcrypt", cost |-> BcryptCost, salt |-> salt, digest |-> <<salt, password>>]

\* bcrypt.compare(password, hash): re-hash with the salt the hash embeds
BcryptCompare(password, hash) ==
  BcryptHash(password, hash.salt) = hash

\* Math.floor(Date.now() / 1000): jsonwebtoken counts seconds
NowSec == now \div 1000

\* jwt.sign(payload, secret, { expiresIn: '24h' })
JwtSign(payload, secret, at) ==
  [userId |-> payload.userId, email |-> payload.email,
   iat |-> at, exp |-> at + TokenTTL, key |-> secret]

\* jwt.verify(token, secret): signature, then expiry (clockTimestamp >= exp fails)
JwtVerify(token, secret, at) ==
  /\ token.key = secret
  /\ at < token.exp

----------------------------------------------------------------------------
(* Requests and slots *)

\* the Authorization header as its space-separated parts; <<>> is no header
\* (authHeader.split(' ') of part_000:118)
NoHeader == <<>>
Bearer(token) == <<"Bearer", token>>

Snapshot ==
  [users |-> users, teams |-> teams, players |-> players,
   reports |-> reports, files |-> files]

Idle == [pc |-> "idle"]

Running(pc, r, pre, loc) == [pc |-> pc, in |-> r, pre |-> pre, loc |-> loc]

\* res.status(status).json(body)
Finished(r, pre, status, body) ==
  [pc |-> "done", in |-> r, pre |-> pre, res |-> [status |-> status, body |-> body]]

InFlight == {s \in Slots : req[s].pc # "idle"}

IsDone(s) == req[s].pc = "done"

\* requests of operation op whose handler is still running
Pending(op) == {s \in Slots : req[s].pc \notin {"idle", "done"} /\ req[s].in.op = op}

\* the catch block of every handler (part_000:176-179 and alike)
ServerError == [message |-> "Server error"]

----------------------------------------------------------------------------
(* Rate limiters (middleware.js:7-52), as each route sees them: in these    *)
(* specifications whether a limiter's window is full is the environment's   *)
(* choice; the response is the limiter's.                                   *)

LimiterWindowMs(lim) ==
  CASE lim = "general" -> 15 * 60 * 1000
    [] lim = "auth" -> 15 * 60 * 1000
    [] lim = "upload" -> 60 * 60 * 1000
    [] lim = "register" -> 24 * 60 * 60 * 1000

LimiterMessage(lim) ==
  CASE lim = "general" -> "Too many requests, please try again later"
    [] lim = "auth" -> "Too many authentication attempts, please try again later"
    [] lim = "upload" -> "Too many file uploads, please try again later"
    [] lim = "register" -> "Too many registration attempts, please try again tomorrow"

\* handler of createRateLimiter: Math.round(windowMs / 1000)
RateLimitBody(lim) ==
  [error |-> LimiterMessage(lim), retryAfter |-> (LimiterWindowMs(lim) + 500) \div 1000]

\* the limiters in front of a route, in order (part_000:134, 137, 182, 449)
RouteLimiters(op) ==
  {"general"} \cup
  (CASE op = "register" -> {"register"}
     [] op = "login" -> {"auth"}
     [] op = "upload" -> {"upload"}
     [] OTHER -> {})

\* the route's own limiter, named in the route after the general one
RouteLimiter(op) ==
  CASE op = "register" -> <<"register">>
    [] op = "login" -> <<"auth">>
    [] op = "upload" -> <<"upload">>
    [] OTHER -> <<>>

\* the limiters a request passes, in order: app.use('/api', general), then the route's
LimiterChain(op) == <<"general">> \o RouteLimiter(op)

Limiters == {"general", "auth", "upload", "register"}

\* LimiterMax with the login limiter given the upload limiter's max
LimiterMax_LoginTen(lim) ==
  CASE lim = "general" -> 100
    [] lim = "auth" -> 10
    [] lim = "upload" -> 10
    [] lim = "register" -> 3

\* max of createRateLimiter (middleware.js:28, 35, 42, 49)
LimiterMax(lim) ==
  CASE lim = "general" -> 100
    [] lim = "auth" -> 5
    [] lim = "upload" -> 10
    [] lim = "register" -> 3

\* req.ip, the key of every limiter
Clients == {"10.0.0.1", "10.0.0.2"}

\* a key the store has no window for
NoHits == [totalHits |-> 0, resetTime |-> 0]

\* the key's window is still open at time t
Live(entry, t) == entry.resetTime > t

\* the store's increment(key): a key's window opens with its first hit and ends
\* windowMs later, whatever comes in between; the next hit after that opens a new one
Increment(entry, t, windowMs) ==
  IF Live(entry, t) THEN [entry EXCEPT !.totalHits = @ + 1]
  ELSE [totalHits |-> 1, resetTime |-> t + windowMs]

\* the limiter turns the request away: totalHits > max
OverLimit(lim, entry) == entry.totalHits > LimiterMax(lim)

\* the stores after the request of client ip passed the chain from limiter i on,
\* and the limiter that turned it away ("none": it reached the route)
RECURSIVE CountFrom(_, _, _, _, _)
CountFrom(store, chain, i, ip, t) ==
  IF i > Len(chain) THEN [hits |-> store, full |-> "none"]
  ELSE LET lim == chain[i]
           entry == Increment(store[lim][ip], t, LimiterWindowMs(lim))
           counted == [store EXCEPT ![lim][ip] = entry]
       IN IF OverLimit(lim, entry) THEN [hits |-> counted, full |-> lim]
          ELSE CountFrom(counted, chain, i + 1, ip, t)

Count(store, op, ip, t) == CountFrom(store, LimiterChain(op), 1, ip, t)

\* NeedsToken with the upload route left without authenticateToken
NeedsToken_UploadOpen(op) == op \notin {"register", "login", "health", "upload"}

\* every route but register, login and health names authenticateToken
NeedsToken(op) == op \notin {"register", "login", "health"}

\* authenticateToken (part_000:116-131): 0 when next() is called
AuthStatus(header, at) ==
  IF Len(header) < 2 THEN 401
  ELSE IF ~JwtVerify(header[2], JWT_SECRET, at) THEN 403
  ELSE 0

AuthBody(status) ==
  IF status = 401 THEN [message |-> "Access token required"]
  ELSE [message |-> "Invalid or expired token"]

----------------------------------------------------------------------------
(* Arrival: the middleware in front of the route and the handler's code up  *)
(* to its first await.                                                      *)

\* EnterHandler with the registration code never looked at
EnterHandler_AnyCode(r, pre, user) ==
  CASE r.op = "register" -> Running("register_findOne", r, pre, [user |-> user])
    [] r.op = "login" -> Running("login_findOne", r, pre, [user |-> user])
    [] OTHER -> Running(r.op, r, pre, [user |-> user])

\* the handler's synchronous prefix; user is req.user
EnterHandler(r, pre, user) ==
  CASE r.op = "register" ->
         \* part_000:139-144
         IF r.body.registrationCode # REGISTRATION_CODE
         THEN Finished(r, pre, 400, [message |-> "Invalid registration code"])
         ELSE Running("register_findOne", r, pre, [user |-> user])
    [] r.op = "login" -> Running("login_findOne", r, pre, [user |-> user])
    [] OTHER -> Running(r.op, r, pre, [user |-> user])

CreateOps == {"createTeam", "createPlayer", "createReport", "upload"}

Created == (nextId.team - 1) + (nextId.player - 1) + (nextId.report - 1) + (nextId.file - 1)

\* what the request would create still fits the model's bound
Room(op) ==
  CASE op = "register" -> nextId.user + Cardinality(Pending(op)) <= MaxUsers
    [] op \in CreateOps ->
         Created + Cardinality(UNION {Pending(o) : o \in CreateOps}) < MaxCreated
    [] OTHER -> TRUE

NoUser == [userId |-> Oid("user", 0), email |-> ""]

\* request r enters slot s; full is the limiter that turns it away, if any
Admit(s, r, full) ==
  /\ req[s].pc = "idle"
  /\ \A t \in Slots : t < s => req[t].pc # "idle"
  /\ Room(r.op)
  /\ full \in RouteLimiters(r.op) \cup {"none"}
  /\ LET auth == IF NeedsToken(r.op) THEN AuthStatus(r.auth, NowSec) ELSE 0
         user == IF NeedsToken(r.op) /\ auth = 0
                 THEN [userId |-> r.auth[2].userId, email |-> r.auth[2].email]
                 ELSE NoUser
     IN req' = [req EXCEPT ![s] =
                  IF full # "none" THEN Finished(r, Snapshot, 429, RateLimitBody(full))
                  ELSE IF auth # 0 THEN Finished(r, Snapshot, auth, AuthBody(auth))
                  ELSE EnterHandler(r, Snapshot, user)]
  /\ UNCHANGED <<users, teams, players, reports, files, nextId, now>>

\* request r arrives in slot s; whether a limiter's window is full is the
\* environment's choice
Arrive(s, r, full) ==
  /\ Admit(s, r, full)
  /\ UNCHANGED <<limiterVars, expired, frontendVars>>

\* the ceilings the limiters are held to: requests per window and client
Ceiling(lim) ==
  CASE lim = "general" -> 100
    [] lim = "auth" -> 5
    [] lim = "upload" -> 10
    [] lim = "register" -> 3

\* what is on record of a limiter and a client: when the client first asked, how
\* many requests it made in the window's length from then on, and the times of
\* the last max + 1 requests the limiter let through
NoSeen == [first |-> 0 - 1, asked |-> 0, admitted |-> <<>>]

\* what is on record of a request: its client, its time, for each limiter its
\* number among the client's requests since the first (0: the limiter does not
\* apply or the first window's length has passed), and the end of the window the
\* limiter counted it in
NoStamp ==
  [ip |-> "", at |-> 0, nth |-> [lim \in Limiters |-> 0], ends |-> [lim \in Limiters |-> 0]]

\* the last n elements of sequence q
LastOf(q, n) == IF Len(q) <= n THEN q ELSE SubSeq(q, Len(q) - n + 1, Len(q))

\* limiter lim let the request through (full is the limiter that turned it away)
Passed(lim, full) == IF lim = "general" THEN full # "general" ELSE full = "none"

\* the record after a request of operation op by client ip at time t
Record(sn, op, ip, t, full) ==
  [lim \in Limiters |->
     IF lim \notin RouteLimiters(op) THEN sn[lim]
     ELSE LET e == sn[lim][ip]
              inFirst == e.first < 0 \/ t < e.first + LimiterWindowMs(lim)
          IN [sn[lim] EXCEPT ![ip] =
                [first |-> IF e.first < 0 THEN t ELSE e.first,
                 asked |-> IF inFirst THEN e.asked + 1 ELSE e.asked,
                 admitted |-> IF Passed(lim, full)
                              THEN LastOf(Append(e.admitted, t), Ceiling(lim) + 1)
                              ELSE e.admitted]]]

\* the client has not been turned away by a limiter of this route in the open
\* window: the model follows each window up to its first refusal
Countable(op, ip) ==
  \A lim \in RouteLimiters(op) :
    ~(Live(hits[lim][ip], now) /\ OverLimit(lim, hits[lim][ip]))

\* request r of client ip arrives in slot s and passes the limiters of its route
ArriveCounted(s, r, ip) ==
  /\ Countable(r.op, ip)
  /\ LET c == Count(hits, r.op, ip, now)
         sn == Record(seen, r.op, ip, now, c.full)
     IN /\ Admit(s, r, c.full)
        /\ hits' = c.hits
        /\ seen' = sn
        /\ stamp' = [stamp EXCEPT ![s] =
                       [ip |-> ip, at |-> now,
                        nth |-> [lim \in Limiters |->
                                   IF /\ lim \in RouteLimiters(r.op)
                                      /\ now < sn[lim][ip].first + LimiterWindowMs(lim)
                                   THEN sn[lim][ip].asked ELSE 0],
                        ends |-> [lim \in Limiters |-> c.hits[lim][ip].resetTime]]]
        /\ UNCHANGED <<expired, frontendVars>>

\* the timer of timeoutMiddleware has not fired for the request
NoExpiry == FALSE

\* the answer of the timer's callback: res.status(408).json({ error: 'Request timeout' })
TimeoutAnswer == [status |-> 408, body |-> [error |-> "Request timeout"]]

\* Timeout with the timer set on the upload route only
Timeout_UploadOnly(s) ==
  /\ req[s].pc \notin {"idle", "done", "reset"}
  /\ req[s].in.op = "upload"
  /\ ~expired[s]
  /\ expired' = [expired EXCEPT ![s] = TRUE]
  /\ UNCHANGED <<users, teams, players, reports, files, nextId, req, now, limiterVars, frontendVars>>

\* timeoutMiddleware: res.setTimeout(30000, ...) fires while the handler has not
\* answered, and its callback sends the 408; nothing stops the handler
Timeout(s) ==
  /\ req[s].pc \notin {"idle", "done", "reset"}
  /\ ~expired[s]
  /\ expired' = [expired EXCEPT ![s] = TRUE]
  /\ UNCHANGED <<users, teams, players, reports, files, nextId, req, now, limiterVars, frontendVars>>

\* what the caller of the request in slot s has received: the timer's 408 if it
\* fired first (a later res.json of the handler throws, headers being sent),
\* the handler's answer otherwise
Answered(s) == expired[s] \/ IsDone(s)

Answer(s) == IF expired[s] THEN TimeoutAnswer ELSE req[s].res

\* the response has been sent and the slot is free again
Deliver(s) ==
  /\ req[s].pc = "done"
  /\ ~expired[s]
  /\ req' = [req EXCEPT ![s] = Idle]
  /\ stamp' = [stamp EXCEPT ![s] = NoStamp]
  /\ expired' = [expired EXCEPT ![s] = NoExpiry]
  /\ UNCHANGED <<users, teams, players, reports, files, nextId, now, hits, seen, frontendVars>>

\* A handler comes to answer after the timer did: its res.json throws (headers
\* already sent), the res.status(500).json of its catch throws again, the
\* rejection of the async handler is handled by nobody and Node 18 ends the
\* process (compose starts it again).  Requests not yet answered lose their
\* connection; the limiters' counters, kept in memory, start anew.
Crash ==
  /\ \E s \in Slots : expired[s] /\ IsDone(s)
  /\ req' = [s \in Slots |->
               IF req[s].pc \in {"idle", "done", "reset"} \/ expired[s]
               THEN IF req[s].pc = "reset" THEN req[s] ELSE Idle
               ELSE [pc |-> "reset", in |-> req[s].in, pre |-> req[s].pre]]
  /\ expired' = [s \in Slots |-> NoExpiry]
  /\ hits' = [lim \in Limiters |-> [ip \in Clients |-> NoHits]]
  /\ stamp' = [s \in Slots |-> NoStamp]
  /\ UNCHANGED <<users, teams, players, reports, files, nextId, now, seen, frontendVars>>

\* the caller of a request that lost its connection gives up
Drop(s) ==
  /\ req[s].pc = "reset"
  /\ req' = [req EXCEPT ![s] = Idle]
  /\ UNCHANGED <<users, teams, players, reports, files, nextId, now, limiterVars, expired, frontendVars>>

\* one step of the clock (Date.now() is read in milliseconds)
TickMs == 5 * 60 * 1000

\* time passes
Tick ==
  /\ now + TickMs <= MaxTicks * TickMs
  /\ now' = now + TickMs
  /\ UNCHANGED <<users, teams, players, reports, files, nextId, req, limiterVars, expired, frontendVars>>

----------------------------------------------------------------------------
(* POST /api/auth/register (part_000:137-180) *)

PublicUser(u) == [id |-> u.id, email |-> u.email, role |-> u.role]

\* await User.findOne({ email })
RegisterFindOne(s, dbOk) ==
  /\ req[s].pc = "register_findOne"
  /\ LET q == req[s]
         existingUser == {u \in users : u.email = q.in.body.email}
     IN req' = [req EXCEPT ![s] =
                  IF ~dbOk THEN Finished(q.in, q.pre, 500, ServerError)
                  ELSE IF existingUser # {}
                       THEN Finished(q.in, q.pre, 400, [message |-> "User already exists"])
                       ELSE [q EXCEPT !.pc = "register_hash"]]
  /\ UNCHANGED <<users, teams, players, reports, files, nextId, now, limiterVars, expired, frontendVars>>

\* await bcrypt.genSalt(10); await bcrypt.hash(password, salt)
RegisterHash(s, salt) ==
  /\ req[s].pc = "register_hash"
  /\ LET q == req[s]
     IN req' = [req EXCEPT ![s] =
                  Running("register_save", q.in, q.pre,
                          [user |-> q.loc.user,
                           hashedPassword |-> BcryptHash(q.in.body.password, salt)])]
  /\ UNCHANGED <<users, teams, players, reports, files, nextId, now, limiterVars, expired, frontendVars>>

\* the unique index on users.email (part_000:54, mongodb-init.js:145)
EmailIndexAdmits(email) == \A u \in users : u.email # email

\* await user.save(), then jwt.sign and the 201
RegisterSave(s, dbOk) ==
  /\ req[s].pc = "register_save"
  /\ LET q == req[s]
         user == [id |-> Oid("user", nextId.user), email |-> q.in.body.email,
                  password |-> q.loc.hashedPassword, role |-> "coach", createdAt |-> now]
         token == JwtSign([userId |-> user.id, email |-> user.email], JWT_SECRET, NowSec)
     IN IF dbOk /\ EmailIndexAdmits(user.email)
        THEN /\ users' = users \cup {user}
             /\ nextId' = [nextId EXCEPT !.user = @ + 1]
             /\ req' = [req EXCEPT ![s] =
                          Finished(q.in, q.pre, 201,
                                   [message |-> "User created successfully",
                                    token |-> token, user |-> PublicUser(user)])]
        ELSE /\ req' = [req EXCEPT ![s] = Finished(q.in, q.pre, 500, ServerError)]
             /\ UNCHANGED <<users, nextId>>
  /\ UNCHANGED <<teams, players, reports, files, now, limiterVars, expired, frontendVars>>

----------------------------------------------------------------------------
(* POST /api/auth/login (part_000:182-214) *)

\* LoginFindOne answering an unknown email with its own message
LoginFindOne_TellsUnknown(s, dbOk) ==
  /\ req[s].pc = "login_findOne"
  /\ LET q == req[s]
         found == {u \in users : u.email = q.in.body.email}
     IN req' = [req EXCEPT ![s] =
                  IF ~dbOk THEN Finished(q.in, q.pre, 500, ServerError)
                  ELSE IF found = {}
                       THEN Finished(q.in, q.pre, 400, [message |-> "User not found"])
                       ELSE Running("login_compare", q.in, q.pre,
                                    [user |-> CHOOSE u \in found : TRUE])]
  /\ UNCHANGED <<users, teams, players, reports, files, nextId, now, limiterVars, expired, frontendVars>>

\* await User.findOne({ email })
LoginFindOne(s, dbOk) ==
  /\ req[s].pc = "login_findOne"
  /\ LET q == req[s]
         found == {u \in users : u.email = q.in.body.email}
     IN req' = [req EXCEPT ![s] =
                  IF ~dbOk THEN Finished(q.in, q.pre, 500, ServerError)
                  ELSE IF found = {}
                       THEN Finished(q.in, q.pre, 400, [message |-> "Invalid credentials"])
                       ELSE Running("login_compare", q.in, q.pre,
                                    [user |-> CHOOSE u \in found : TRUE])]
  /\ UNCHANGED <<users, teams, players, reports, files, nextId, now, limiterVars, expired, frontendVars>>

\* LoginCompare with the result of bcrypt.compare ignored
LoginCompare_NoCheck(s) ==
  /\ req[s].pc = "login_compare"
  /\ LET q == req[s]
         user == q.loc.user
         token == JwtSign([userId |-> user.id, email |-> user.email], JWT_SECRET, NowSec)
     IN req' = [req EXCEPT ![s] =
                  Finished(q.in, q.pre, 200,
                           [message |-> "Login successful",
                            token |-> token, user |-> PublicUser(user)])]
  /\ UNCHANGED <<users, teams, players, reports, files, nextId, now, limiterVars, expired, frontendVars>>

\* await bcrypt.compare(password, user.password), then jwt.sign and the 200
LoginCompare(s) ==
  /\ req[s].pc = "login_compare"
  /\ LET q == req[s]
         user == q.loc.user
         isMatch == BcryptCompare(q.in.body.password, user.password)
         token == JwtSign([userId |-> user.id, email |-> user.email], JWT_SECRET, NowSec)
     IN req' = [req EXCEPT ![s] =
                  IF ~isMatch
                  THEN Finished(q.in, q.pre, 400, [message |-> "Invalid credentials"])
                  ELSE Finished(q.in, q.pre, 200,
                                [message |-> "Login successful",
                                 token |-> token, user |-> PublicUser(user)])]
  /\ UNCHANGED <<users, teams, players, reports, files, nextId, now, limiterVars, expired, frontendVars>>

----------------------------------------------------------------------------
(* Team routes (part_000:217-286) *)

Reply(q, status, body) == Finished(q.in, q.pre, status, body)

\* .populate(path, 'email'): the referenced document's selected fields, none if
\* the reference dangles
PopulateUser(id) == {[id |-> u.id, email |-> u.email] : u \in {v \in users : v.id = id}}

PopulateTeam(id) ==
  {[id |-> t.id, name |-> t.name, league |-> t.league] : t \in {v \in teams : v.id = id}}

PopulatePlayer(id) ==
  {[id |-> p.id, name |-> p.name, position |-> p.position, jerseyNumber |-> p.jerseyNumber] :
     p \in {v \in players : v.id = id}}

\* GET /api/teams: await Team.find().populate('createdBy', 'email')
ListTeams(s, dbOk) ==
  /\ req[s].pc = "listTeams"
  /\ LET q == req[s]
         found == {[t EXCEPT !.createdBy = PopulateUser(t.createdBy)] : t \in teams}
     IN req' = [req EXCEPT ![s] =
                  IF dbOk THEN Reply(q, 200, [docs |-> found]) ELSE Reply(q, 500, ServerError)]
  /\ UNCHANGED <<users, teams, players, reports, files, nextId, now, limiterVars, expired, frontendVars>>

\* POST /api/teams: await team.save()
CreateTeam(s, dbOk) ==
  /\ req[s].pc = "createTeam"
  /\ LET q == req[s]
         team == [id |-> Oid("team", nextId.team), name |-> q.in.body.name,
                  league |-> q.in.body.league, createdBy |-> q.loc.user.userId,
                  createdAt |-> now]
     IN IF dbOk
        THEN /\ teams' = teams \cup {team}
             /\ nextId' = [nextId EXCEPT !.team = @ + 1]
             /\ req' = [req EXCEPT ![s] = Reply(q, 201, team)]
        ELSE /\ req' = [req EXCEPT ![s] = Reply(q, 500, ServerError)]
             /\ UNCHANGED <<teams, nextId>>
  /\ UNCHANGED <<users, players, reports, files, now, limiterVars, expired, frontendVars>>

\* PUT /api/teams/:id: await Team.findByIdAndUpdate(id, { name, league }, { new: true })
UpdateTeam(s, dbOk) ==
  /\ req[s].pc = "updateTeam"
  /\ LET q == req[s]
         found == {t \in teams : t.id = q.in.id}
         updated == {[t EXCEPT !.name = q.in.body.name, !.league = q.in.body.league] :
                       t \in found}
     IN IF ~dbOk \/ ~IsObjectId(q.in.id)
        THEN /\ req' = [req EXCEPT ![s] = Reply(q, 500, ServerError)]
             /\ UNCHANGED teams
        ELSE IF found = {}
        THEN /\ req' = [req EXCEPT ![s] = Reply(q, 404, [message |-> "Team not found"])]
             /\ UNCHANGED teams
        ELSE /\ teams' = (teams \ found) \cup updated
             /\ req' = [req EXCEPT ![s] = Reply(q, 200, CHOOSE t \in updated : TRUE)]
  /\ UNCHANGED <<users, players, reports, files, nextId, now, limiterVars, expired, frontendVars>>

\* DELETE /api/teams/:id, first await: Team.findByIdAndDelete(req.params.id)
DeleteTeamFindAndDelete(s, dbOk) ==
  /\ req[s].pc = "deleteTeam"
  /\ LET q == req[s]
         found == {t \in teams : t.id = q.in.id}
     IN IF ~dbOk \/ ~IsObjectId(q.in.id)
        THEN /\ req' = [req EXCEPT ![s] = Reply(q, 500, ServerError)]
             /\ UNCHANGED teams
        ELSE IF found = {}
        THEN /\ req' = [req EXCEPT ![s] = Reply(q, 404, [message |-> "Team not found"])]
             /\ UNCHANGED teams
        ELSE /\ teams' = teams \ found
             /\ req' = [req EXCEPT ![s].pc = "deleteTeam_findPlayers"]
  /\ UNCHANGED <<users, players, reports, files, nextId, now, limiterVars, expired, frontendVars>>

\* DeleteTeamFindPlayers run after the players are gone: it finds none
DeleteTeamFindPlayers_TooLate(s, dbOk) ==
  /\ req[s].pc = "deleteTeam_findPlayers"
  /\ LET q == req[s]
     IN req' = [req EXCEPT ![s] =
                  IF dbOk
                  THEN Running("deleteTeam_deletePlayers", q.in, q.pre,
                               [user |-> q.loc.user, playerIds |-> {}])
                  ELSE Reply(q, 500, ServerError)]
  /\ UNCHANGED <<users, teams, players, reports, files, nextId, now, limiterVars, expired, frontendVars>>

\* second await: Player.find({ teamId: req.params.id }); playerIds = players.map(p => p._id)
DeleteTeamFindPlayers(s, dbOk) ==
  /\ req[s].pc = "deleteTeam_findPlayers"
  /\ LET q == req[s]
         playerIds == {p.id : p \in {v \in players : v.teamId = q.in.id}}
     IN req' = [req EXCEPT ![s] =
                  IF dbOk
                  THEN Running("deleteTeam_deletePlayers", q.in, q.pre,
                               [user |-> q.loc.user, playerIds |-> playerIds])
                  ELSE Reply(q, 500, ServerError)]
  /\ UNCHANGED <<users, teams, players, reports, files, nextId, now, limiterVars, expired, frontendVars>>

\* DeleteTeamDeletePlayers with a filter that matches every player
DeleteTeamDeletePlayers_All(s, dbOk) ==
  /\ req[s].pc = "deleteTeam_deletePlayers"
  /\ LET q == req[s]
     IN IF dbOk
        THEN /\ players' = {}
             /\ req' = [req EXCEPT ![s].pc = "deleteTeam_deleteReports"]
        ELSE /\ req' = [req EXCEPT ![s] = Reply(q, 500, ServerError)]
             /\ UNCHANGED players
  /\ UNCHANGED <<users, teams, reports, files, nextId, now, limiterVars, expired, frontendVars>>

\* third await: Player.deleteMany({ teamId: req.params.id })
DeleteTeamDeletePlayers(s, dbOk) ==
  /\ req[s].pc = "deleteTeam_deletePlayers"
  /\ LET q == req[s]
     IN IF dbOk
        THEN /\ players' = {p \in players : p.teamId # q.in.id}
             /\ req' = [req EXCEPT ![s].pc = "deleteTeam_deleteReports"]
        ELSE /\ req' = [req EXCEPT ![s] = Reply(q, 500, ServerError)]
             /\ UNCHANGED players
  /\ UNCHANGED <<users, teams, reports, files, nextId, now, limiterVars, expired, frontendVars>>

\* fourth await: Report.deleteMany({ playerId: { $in: playerIds } }), then the 200
DeleteTeamDeleteReports(s, dbOk) ==
  /\ req[s].pc = "deleteTeam_deleteReports"
  /\ LET q == req[s]
     IN IF dbOk
        THEN /\ reports' = {r \in reports : r.playerId \notin q.loc.playerIds}
             /\ req' = [req EXCEPT ![s] =
                          Reply(q, 200,
                                [message |-> "Team and associated data deleted successfully"])]
        ELSE /\ req' = [req EXCEPT ![s] = Reply(q, 500, ServerError)]
             /\ UNCHANGED reports
  /\ UNCHANGED <<users, teams, players, files, nextId, now, limiterVars, expired, frontendVars>>

----------------------------------------------------------------------------
(* Player routes (part_000:289-359) *)

\* GET /api/players: filter = teamId ? { teamId } : {}
ListPlayers(s, dbOk) ==
  /\ req[s].pc = "listPlayers"
  /\ LET q == req[s]
         matching == IF q.in.id # NoId THEN {p \in players : p.teamId = q.in.id} ELSE players
         found == {[p EXCEPT !.teamId = PopulateTeam(p.teamId)] : p \in matching}
     IN req' = [req EXCEPT ![s] =
                  IF dbOk /\ (q.in.id = NoId \/ IsObjectId(q.in.id)) THEN Reply(q, 200, [docs |-> found]) ELSE Reply(q, 500, ServerError)]
  /\ UNCHANGED <<users, teams, players, reports, files, nextId, now, limiterVars, expired, frontendVars>>

\* POST /api/players: await player.save()
CreatePlayer(s, dbOk) ==
  /\ req[s].pc = "createPlayer"
  /\ LET q == req[s]
         player == [id |-> Oid("player", nextId.player), name |-> q.in.body.name,
                    position |-> q.in.body.position,
                    jerseyNumber |-> q.in.body.jerseyNumber,
                    teamId |-> q.in.body.teamId, createdAt |-> now]
     IN IF dbOk
        THEN /\ players' = players \cup {player}
             /\ nextId' = [nextId EXCEPT !.player = @ + 1]
             /\ req' = [req EXCEPT ![s] =
                          Running("createPlayer_populate", q.in, q.pre,
                                  [user |-> q.loc.user, doc |-> player])]
        ELSE /\ req' = [req EXCEPT ![s] = Reply(q, 500, ServerError)]
             /\ UNCHANGED <<players, nextId>>
  /\ UNCHANGED <<users, teams, reports, files, now, limiterVars, expired, frontendVars>>

\* await player.populate('teamId', 'name league'), then the 201
CreatePlayerPopulate(s, dbOk) ==
  /\ req[s].pc = "createPlayer_populate"
  /\ LET q == req[s]
         doc == q.loc.doc
     IN req' = [req EXCEPT ![s] =
                  IF dbOk
                  THEN Reply(q, 201, [doc EXCEPT !.teamId = PopulateTeam(doc.teamId)])
                  ELSE Reply(q, 500, ServerError)]
  /\ UNCHANGED <<users, teams, players, reports, files, nextId, now, limiterVars, expired, frontendVars>>

\* PUT /api/players/:id: await Player.findByIdAndUpdate(...).populate('teamId', ...)
UpdatePlayer(s, dbOk) ==
  /\ req[s].pc = "updatePlayer"
  /\ LET q == req[s]
         found == {p \in players : p.id = q.in.id}
         updated == {[p EXCEPT !.name = q.in.body.name,
                               !.position = q.in.body.position,
                               !.jerseyNumber = q.in.body.jerseyNumber,
                               !.teamId = q.in.body.teamId] : p \in found}
     IN IF ~dbOk \/ ~IsObjectId(q.in.id)
        THEN /\ req' = [req EXCEPT ![s] = Reply(q, 500, ServerError)]
             /\ UNCHANGED players
        ELSE IF found = {}
        THEN /\ req' = [req EXCEPT ![s] = Reply(q, 404, [message |-> "Player not found"])]
             /\ UNCHANGED players
        ELSE /\ players' = (players \ found) \cup updated
             /\ req' = [req EXCEPT ![s] =
                          Reply(q, 200, CHOOSE d \in {[p EXCEPT !.teamId = PopulateTeam(p.teamId)] :
                                                        p \in updated} : TRUE)]
  /\ UNCHANGED <<users, teams, reports, files, nextId, now, limiterVars, expired, frontendVars>>

\* DELETE /api/players/:id, first await: Player.findByIdAndDelete(req.params.id)
DeletePlayerFindAndDelete(s, dbOk) ==
  /\ req[s].pc = "deletePlayer"
  /\ LET q == req[s]
         found == {p \in players : p.id = q.in.id}
     IN IF ~dbOk \/ ~IsObjectId(q.in.id)
        THEN /\ req' = [req EXCEPT ![s] = Reply(q, 500, ServerError)]
             /\ UNCHANGED players
        ELSE IF found = {}
        THEN /\ req' = [req EXCEPT ![s] = Reply(q, 404, [message |-> "Player not found"])]
             /\ UNCHANGED players
        ELSE /\ players' = players \ found
             /\ req' = [req EXCEPT ![s].pc = "deletePlayer_deleteReports"]
  /\ UNCHANGED <<users, teams, reports, files, nextId, now, limiterVars, expired, frontendVars>>

\* DeletePlayerDeleteReports with a filter that matches every report
DeletePlayerDeleteReports_All(s, dbOk) ==
  /\ req[s].pc = "deletePlayer_deleteReports"
  /\ LET q == req[s]
     IN IF dbOk
        THEN /\ reports' = {}
             /\ req' = [req EXCEPT ![s] =
                          Reply(q, 200,
                                [message |-> "Player and associated reports deleted successfully"])]
        ELSE /\ req' = [req EXCEPT ![s] = Reply(q, 500, ServerError)]
             /\ UNCHANGED reports
  /\ UNCHANGED <<users, teams, players, files, nextId, now, limiterVars, expired, frontendVars>>

\* second await: Report.deleteMany({ playerId: req.params.id }), then the 200
DeletePlayerDeleteReports(s, dbOk) ==
  /\ req[s].pc = "deletePlayer_deleteReports"
  /\ LET q == req[s]
     IN IF dbOk
        THEN /\ reports' = {r \in reports : r.playerId # q.in.id}
             /\ req' = [req EXCEPT ![s] =
                          Reply(q, 200,
                                [message |-> "Player and associated reports deleted successfully"])]
        ELSE /\ req' = [req EXCEPT ![s] = Reply(q, 500, ServerError)]
             /\ UNCHANGED reports
  /\ UNCHANGED <<users, teams, players, files, nextId, now, limiterVars, expired, frontendVars>>

----------------------------------------------------------------------------
(* Report routes (part_000:362-446) *)

\* Mongoose casts the body's date to the schema's Date
CastDate(d) == [day |-> d, time |-> "00:00:00.000Z"]

\* the sequences listing every element of set S once
Orderings(S) ==
  {q \in [1..Cardinality(S) -> S] : \A i, j \in 1..Cardinality(S) : i # j => q[i] # q[j]}

\* .sort({ date: -1 })
SortedByDateDesc(q) == \A i, j \in DOMAIN q : i < j => q[i].date.day >= q[j].date.day

PopulateReport(r) ==
  [r EXCEPT !.playerId = PopulatePlayer(r.playerId), !.scoutId = PopulateUser(r.scoutId)]

\* GET /api/reports: filter = playerId ? { playerId } : {}; populate twice; sort
\* (documents of one date come in any order)
ListReports(s, dbOk) ==
  /\ req[s].pc = "listReports"
  /\ LET q == req[s]
         matching == IF q.in.id # NoId THEN {r \in reports : r.playerId = q.in.id}
                     ELSE reports
         found == {PopulateReport(r) : r \in matching}
     IN req' \in {[req EXCEPT ![s] = res] :
                    res \in IF dbOk /\ (q.in.id = NoId \/ IsObjectId(q.in.id))
                            THEN {Reply(q, 200, [docs |-> order]) :
                                    order \in {o \in Orderings(found) : SortedByDateDesc(o)}}
                            ELSE {Reply(q, 500, ServerError)}}
  /\ UNCHANGED <<users, teams, players, reports, files, nextId, now, limiterVars, expired, frontendVars>>

\* an unset sprayChartUrl
NoUrl == <<>>

\* CreateReport with the scout taken from the body
CreateReport_BodyScout(s, dbOk) ==
  /\ req[s].pc = "createReport"
  /\ LET q == req[s]
         report == [id |-> Oid("report", nextId.report), playerId |-> q.in.body.playerId,
                    scoutId |-> q.in.body.scoutId, date |-> CastDate(q.in.body.date),
                    evaluations |-> q.in.body.evaluations, notes |-> q.in.body.notes,
                    sprayChartUrl |-> NoUrl, createdAt |-> now, updatedAt |-> now]
     IN IF dbOk /\ IsObjectId(q.in.body.playerId)
        THEN /\ reports' = reports \cup {report}
             /\ nextId' = [nextId EXCEPT !.report = @ + 1]
             /\ req' = [req EXCEPT ![s] =
                          Running("createReport_populate", q.in, q.pre,
                                  [user |-> q.loc.user, doc |-> report])]
        ELSE /\ req' = [req EXCEPT ![s] = Reply(q, 500, ServerError)]
             /\ UNCHANGED <<reports, nextId>>
  /\ UNCHANGED <<users, teams, players, files, now, limiterVars, expired, frontendVars>>

\* CreateReport that leaves the date to a default instead of the body's
CreateReport_DefaultDate(s, dbOk) ==
  /\ req[s].pc = "createReport"
  /\ LET q == req[s]
         report == [id |-> Oid("report", nextId.report), playerId |-> q.in.body.playerId,
                    scoutId |-> q.loc.user.userId, date |-> CastDate(19700101),
                    evaluations |-> q.in.body.evaluations, notes |-> q.in.body.notes,
                    sprayChartUrl |-> NoUrl, createdAt |-> now, updatedAt |-> now]
     IN IF dbOk /\ IsObjectId(q.in.body.playerId)
        THEN /\ reports' = reports \cup {report}
             /\ nextId' = [nextId EXCEPT !.report = @ + 1]
             /\ req' = [req EXCEPT ![s] =
                          Running("createReport_populate", q.in, q.pre,
                                  [user |-> q.loc.user, doc |-> report])]
        ELSE /\ req' = [req EXCEPT ![s] = Reply(q, 500, ServerError)]
             /\ UNCHANGED <<reports, nextId>>
  /\ UNCHANGED <<users, teams, players, files, now, limiterVars, expired, frontendVars>>

\* POST /api/reports: await report.save(); scoutId is req.user.userId
CreateReport(s, dbOk) ==
  /\ req[s].pc = "createReport"
  /\ LET q == req[s]
         report == [id |-> Oid("report", nextId.report), playerId |-> q.in.body.playerId,
                    scoutId |-> q.loc.user.userId, date |-> CastDate(q.in.body.date),
                    evaluations |-> q.in.body.evaluations, notes |-> q.in.body.notes,
                    sprayChartUrl |-> NoUrl, createdAt |-> now, updatedAt |-> now]
     IN IF dbOk /\ IsObjectId(q.in.body.playerId)
        THEN /\ reports' = reports \cup {report}
             /\ nextId' = [nextId EXCEPT !.report = @ + 1]
             /\ req' = [req EXCEPT ![s] =
                          Running("createReport_populate", q.in, q.pre,
                                  [user |-> q.loc.user, doc |-> report])]
        ELSE /\ req' = [req EXCEPT ![s] = Reply(q, 500, ServerError)]
             /\ UNCHANGED <<reports, nextId>>
  /\ UNCHANGED <<users, teams, players, files, now, limiterVars, expired, frontendVars>>

\* await report.populate('playerId', ...); await report.populate('scoutId', 'email')
CreateReportPopulate(s, dbOk) ==
  /\ req[s].pc = "createReport_populate"
  /\ LET q == req[s]
     IN req' = [req EXCEPT ![s] =
                  IF dbOk THEN Reply(q, 201, PopulateReport(q.loc.doc))
                  ELSE Reply(q, 500, ServerError)]
  /\ UNCHANGED <<users, teams, players, reports, files, nextId, now, limiterVars, expired, frontendVars>>

\* UpdateReport with the whole body handed to findByIdAndUpdate
UpdateReport_WholeBody(s, dbOk) ==
  /\ req[s].pc = "updateReport"
  /\ LET q == req[s]
         found == {r \in reports : r.id = q.in.id}
         updated == {[r EXCEPT !.date = CastDate(q.in.body.date),
                               !.evaluations = q.in.body.evaluations,
                               !.notes = q.in.body.notes,
                               !.playerId = q.in.body.playerId,
                               !.scoutId = q.in.body.scoutId,
                               !.updatedAt = now] : r \in found}
     IN IF ~dbOk \/ ~IsObjectId(q.in.id)
        THEN /\ req' = [req EXCEPT ![s] = Reply(q, 500, ServerError)]
             /\ UNCHANGED reports
        ELSE IF found = {}
        THEN /\ req' = [req EXCEPT ![s] = Reply(q, 404, [message |-> "Report not found"])]
             /\ UNCHANGED reports
        ELSE /\ reports' = (reports \ found) \cup updated
             /\ req' = [req EXCEPT ![s] =
                          Reply(q, 200, PopulateReport(CHOOSE r \in updated : TRUE))]
  /\ UNCHANGED <<users, teams, players, files, nextId, now, limiterVars, expired, frontendVars>>

\* UpdateReport with updatedAt left out of the update
UpdateReport_KeepsUpdatedAt(s, dbOk) ==
  /\ req[s].pc = "updateReport"
  /\ LET q == req[s]
         found == {r \in reports : r.id = q.in.id}
         updated == {[r EXCEPT !.date = CastDate(q.in.body.date),
                               !.evaluations = q.in.body.evaluations,
                               !.notes = q.in.body.notes] : r \in found}
     IN IF ~dbOk \/ ~IsObjectId(q.in.id)
        THEN /\ req' = [req EXCEPT ![s] = Reply(q, 500, ServerError)]
             /\ UNCHANGED reports
        ELSE IF found = {}
        THEN /\ req' = [req EXCEPT ![s] = Reply(q, 404, [message |-> "Report not found"])]
             /\ UNCHANGED reports
        ELSE /\ reports' = (reports \ found) \cup updated
             /\ req' = [req EXCEPT ![s] =
                          Reply(q, 200, PopulateReport(CHOOSE r \in updated : TRUE))]
  /\ UNCHANGED <<users, teams, players, files, nextId, now, limiterVars, expired, frontendVars>>

\* PUT /api/reports/:id: findByIdAndUpdate(id, { date, evaluations, notes, updatedAt })
UpdateReport(s, dbOk) ==
  /\ req[s].pc = "updateReport"
  /\ LET q == req[s]
         found == {r \in reports : r.id = q.in.id}
         updated == {[r EXCEPT !.date = CastDate(q.in.body.date),
                               !.evaluations = q.in.body.evaluations,
                               !.notes = q.in.body.notes,
                               !.updatedAt = now] : r \in found}
     IN IF ~dbOk \/ ~IsObjectId(q.in.id)
        THEN /\ req' = [req EXCEPT ![s] = Reply(q, 500, ServerError)]
             /\ UNCHANGED reports
        ELSE IF found = {}
        THEN /\ req' = [req EXCEPT ![s] = Reply(q, 404, [message |-> "Report not found"])]
             /\ UNCHANGED reports
        ELSE /\ reports' = (reports \ found) \cup updated
             /\ req' = [req EXCEPT ![s] =
                          Reply(q, 200, PopulateReport(CHOOSE r \in updated : TRUE))]
  /\ UNCHANGED <<users, teams, players, files, nextId, now, limiterVars, expired, frontendVars>>

\* path.basename(report.sprayChartUrl)
Basename(url) == url[Len(url)]

\* DeleteReport that looks among the caller's own reports only
DeleteReport_OwnOnly(s, dbOk) ==
  /\ req[s].pc = "deleteReport"
  /\ LET q == req[s]
         found == {r \in reports : r.id = q.in.id /\ r.scoutId = q.loc.user.userId}
     IN IF ~dbOk \/ ~IsObjectId(q.in.id)
        THEN /\ req' = [req EXCEPT ![s] = Reply(q, 500, ServerError)]
             /\ UNCHANGED reports
        ELSE IF found = {}
        THEN /\ req' = [req EXCEPT ![s] = Reply(q, 404, [message |-> "Report not found"])]
             /\ UNCHANGED reports
        ELSE /\ reports' = reports \ found
             /\ req' = [req EXCEPT ![s] =
                          Running("deleteReport_unlink", q.in, q.pre,
                                  [user |-> q.loc.user,
                                   report |-> CHOOSE r \in found : TRUE])]
  /\ UNCHANGED <<users, teams, players, files, nextId, now, limiterVars, expired, frontendVars>>

\* DELETE /api/reports/:id, the await: Report.findByIdAndDelete(req.params.id)
DeleteReport(s, dbOk) ==
  /\ req[s].pc = "deleteReport"
  /\ LET q == req[s]
         found == {r \in reports : r.id = q.in.id}
     IN IF ~dbOk \/ ~IsObjectId(q.in.id)
        THEN /\ req' = [req EXCEPT ![s] = Reply(q, 500, ServerError)]
             /\ UNCHANGED reports
        ELSE IF found = {}
        THEN /\ req' = [req EXCEPT ![s] = Reply(q, 404, [message |-> "Report not found"])]
             /\ UNCHANGED reports
        ELSE /\ reports' = reports \ found
             /\ req' = [req EXCEPT ![s] =
                          Running("deleteReport_unlink", q.in, q.pre,
                                  [user |-> q.loc.user, report |-> CHOOSE r \in found : TRUE])]
  /\ UNCHANGED <<users, teams, players, files, nextId, now, limiterVars, expired, frontendVars>>

\* DeleteReportUnlink without the fs.existsSync test: unlinkSync of a file that is
\* not there throws, and the catch answers 500
DeleteReportUnlink_NoExistsTest(s) ==
  /\ req[s].pc = "deleteReport_unlink"
  /\ LET q == req[s]
         report == q.loc.report
     IN IF report.sprayChartUrl # NoUrl /\ Basename(report.sprayChartUrl) \notin files
        THEN /\ req' = [req EXCEPT ![s] = Reply(q, 500, ServerError)]
             /\ UNCHANGED files
        ELSE /\ files' = IF report.sprayChartUrl # NoUrl
                          THEN files \ {Basename(report.sprayChartUrl)}
                          ELSE files
             /\ req' = [req EXCEPT ![s] =
                          Reply(q, 200, [message |-> "Report deleted successfully"])]
  /\ UNCHANGED <<users, teams, players, reports, nextId, now, limiterVars, expired, frontendVars>>

\* the handler after its await: if (report.sprayChartUrl) and fs.existsSync(filepath)
\* then fs.unlinkSync(filepath); then the 200
DeleteReportUnlink(s) ==
  /\ req[s].pc = "deleteReport_unlink"
  /\ LET q == req[s]
         report == q.loc.report
     IN /\ files' = IF report.sprayChartUrl # NoUrl
                     THEN files \ {Basename(report.sprayChartUrl)}
                     ELSE files
        /\ req' = [req EXCEPT ![s] =
                     Reply(q, 200, [message |-> "Report deleted successfully"])]
  /\ UNCHANGED <<users, teams, players, reports, nextId, now, limiterVars, expired, frontendVars>>

----------------------------------------------------------------------------
(* POST /api/upload/spray-chart/:reportId (part_000:93-113, 449-485) *)

\* docker-compose.yml:31
NODE_ENV == "production"

\* the last branch of errorHandlingMiddleware (middleware.js:183-188)
DefaultError(err) ==
  [status |-> IF err.status # 0 THEN err.status ELSE 500,
   body |-> [error |-> IF NODE_ENV = "production" THEN "Internal server error"
                       ELSE err.message]]

\* errorHandlingMiddleware for the errors multer passes to next()
ErrorHandling(err) ==
  IF err.code = "LIMIT_FILE_SIZE"
  THEN [status |-> 400, body |-> [error |-> "File too large"]]
  ELSE DefaultError(err)

\* fileFilter: file.mimetype.startsWith('image/'); a mimetype is <<type, subtype>>
FileFilter(file) == file.mimetype[1] = "image"

\* filename of diskStorage: 'spray-chart-' + uniqueSuffix + path.extname(originalname);
\* the suffix (Date.now() and a random number) is taken as never repeating
Filename(n, file) == <<"spray-chart", n, file.originalname[2]>>

\* upload.single('sprayChart') up to the moment the file is on disk
UploadMulter(s) ==
  /\ req[s].pc = "upload"
  /\ LET q == req[s]
         part == q.in.body.file
         file == part[1]
         filename == Filename(nextId.file, file)
     IN IF part = <<>>
        THEN \* no file part: next(), and the handler finds no req.file
             /\ req' = [req EXCEPT ![s] = Reply(q, 400, [message |-> "No file uploaded"])]
             /\ UNCHANGED <<files, nextId>>
        ELSE IF ~FileFilter(file)
        THEN /\ req' = [req EXCEPT ![s] =
                          LET e == ErrorHandling([code |-> "", status |-> 0,
                                                  message |-> "Only image files are allowed"])
                          IN Reply(q, e.status, e.body)]
             /\ UNCHANGED <<files, nextId>>
        ELSE /\ files' = files \cup {filename}
             /\ nextId' = [nextId EXCEPT !.file = @ + 1]
             /\ req' = [req EXCEPT ![s] =
                          Running(IF file.size > FileSizeLimit THEN "upload_limit"
                                  ELSE "upload_update",
                                  q.in, q.pre, [user |-> q.loc.user, filename |-> filename])]
  /\ UNCHANGED <<users, teams, players, reports, now, limiterVars, expired, frontendVars>>

\* UploadLimit with what was written left on disk
UploadLimit_KeepsFile(s, first) ==
  /\ req[s].pc = "upload_limit"
  /\ LET q == req[s]
     IN /\ first = "multer"
        /\ req' = [req EXCEPT ![s] = Reply(q, 400, [error |-> "File too large"])]
  /\ UNCHANGED <<users, teams, players, reports, files, nextId, now, limiterVars, expired, frontendVars>>

\* the file passed limits.fileSize: multer removes what it wrote and passes
\* LIMIT_FILE_SIZE to next(); a body over 10 MB has requestSizeMiddleware answer too
UploadLimit(s, first) ==
  /\ req[s].pc = "upload_limit"
  /\ LET q == req[s]
         e == ErrorHandling([code |-> "LIMIT_FILE_SIZE", status |-> 0,
                             message |-> "File too large"])
     IN /\ first \in {"multer"} \cup
                     (IF q.in.body.file[1].size > RawBodyLimit THEN {"requestSize"} ELSE {})
        /\ files' = files \ {q.loc.filename}
        /\ req' = [req EXCEPT ![s] =
                     IF first = "multer" THEN Reply(q, e.status, e.body)
                     ELSE Reply(q, 413, [error |-> "File too large"])]
  /\ UNCHANGED <<users, teams, players, reports, nextId, now, limiterVars, expired, frontendVars>>

\* UploadUpdate with the clean-up run on every path, the 200 included
UploadUpdate_UnlinkAlways(s, dbOk) ==
  /\ req[s].pc = "upload_update"
  /\ LET q == req[s]
         sprayChartUrl == <<"uploads", q.loc.filename>>
         found == {r \in reports : r.id = q.in.id}
         updated == {[r EXCEPT !.sprayChartUrl = sprayChartUrl, !.updatedAt = now] :
                       r \in found}
     IN /\ files' = files \ {q.loc.filename}
        /\ IF ~dbOk \/ ~IsObjectId(q.in.id)
           THEN /\ req' = [req EXCEPT ![s] = Reply(q, 500, ServerError)]
                /\ UNCHANGED reports
           ELSE IF found = {}
           THEN /\ req' = [req EXCEPT ![s] = Reply(q, 404, [message |-> "Report not found"])]
                /\ UNCHANGED reports
           ELSE /\ reports' = (reports \ found) \cup updated
                /\ req' = [req EXCEPT ![s] =
                             Reply(q, 200, [message |-> "Spray chart uploaded successfully",
                                            sprayChartUrl |-> sprayChartUrl])]
  /\ UNCHANGED <<users, teams, players, nextId, now, limiterVars, expired, frontendVars>>

\* UploadUpdate without the unlink of the not-found branch
UploadUpdate_NoUnlink(s, dbOk) ==
  /\ req[s].pc = "upload_update"
  /\ LET q == req[s]
         sprayChartUrl == <<"uploads", q.loc.filename>>
         found == {r \in reports : r.id = q.in.id}
         updated == {[r EXCEPT !.sprayChartUrl = sprayChartUrl, !.updatedAt = now] :
                       r \in found}
     IN IF ~dbOk \/ ~IsObjectId(q.in.id)
        THEN /\ files' = files \ {q.loc.filename}
             /\ req' = [req EXCEPT ![s] = Reply(q, 500, ServerError)]
             /\ UNCHANGED reports
        ELSE IF found = {}
        THEN /\ req' = [req EXCEPT ![s] = Reply(q, 404, [message |-> "Report not found"])]
             /\ UNCHANGED <<reports, files>>
        ELSE /\ reports' = (reports \ found) \cup updated
             /\ req' = [req EXCEPT ![s] =
                          Reply(q, 200, [message |-> "Spray chart uploaded successfully",
                                         sprayChartUrl |-> sprayChartUrl])]
             /\ UNCHANGED files
  /\ UNCHANGED <<users, teams, players, nextId, now, limiterVars, expired, frontendVars>>

\* UploadUpdate that removes the file the report named before
UploadUpdate_UnlinkOld(s, dbOk) ==
  /\ req[s].pc = "upload_update"
  /\ LET q == req[s]
         sprayChartUrl == <<"uploads", q.loc.filename>>
         found == {r \in reports : r.id = q.in.id}
         updated == {[r EXCEPT !.sprayChartUrl = sprayChartUrl, !.updatedAt = now] :
                       r \in found}
     IN IF ~dbOk \/ ~IsObjectId(q.in.id)
        THEN /\ files' = files \ {q.loc.filename}
             /\ req' = [req EXCEPT ![s] = Reply(q, 500, ServerError)]
             /\ UNCHANGED reports
        ELSE IF found = {}
        THEN /\ files' = files \ {q.loc.filename}
             /\ req' = [req EXCEPT ![s] = Reply(q, 404, [message |-> "Report not found"])]
             /\ UNCHANGED reports
        ELSE /\ reports' = (reports \ found) \cup updated
             /\ files' = files \ {Basename(r.sprayChartUrl) :
                                     r \in {x \in found : x.sprayChartUrl # NoUrl}}
             /\ req' = [req EXCEPT ![s] =
                          Reply(q, 200, [message |-> "Spray chart uploaded successfully",
                                         sprayChartUrl |-> sprayChartUrl])]
  /\ UNCHANGED <<users, teams, players, nextId, now, limiterVars, expired, frontendVars>>

\* the handler: Report.findByIdAndUpdate(reportId, { sprayChartUrl, updatedAt })
UploadUpdate(s, dbOk) ==
  /\ req[s].pc = "upload_update"
  /\ LET q == req[s]
         sprayChartUrl == <<"uploads", q.loc.filename>>
         found == {r \in reports : r.id = q.in.id}
         updated == {[r EXCEPT !.sprayChartUrl = sprayChartUrl, !.updatedAt = now] :
                       r \in found}
     IN IF ~dbOk \/ ~IsObjectId(q.in.id)
        THEN \* the catch block: fs.unlinkSync(req.file.path)
             /\ files' = files \ {q.loc.filename}
             /\ req' = [req EXCEPT ![s] = Reply(q, 500, ServerError)]
             /\ UNCHANGED reports
        ELSE IF found = {}
        THEN /\ files' = files \ {q.loc.filename}
             /\ req' = [req EXCEPT ![s] = Reply(q, 404, [message |-> "Report not found"])]
             /\ UNCHANGED reports
        ELSE /\ reports' = (reports \ found) \cup updated
             /\ req' = [req EXCEPT ![s] =
                          Reply(q, 200, [message |-> "Spray chart uploaded successfully",
                                         sprayChartUrl |-> sprayChartUrl])]
             /\ UNCHANGED files
  /\ UNCHANGED <<users, teams, players, nextId, now, limiterVars, expired, frontendVars>>

----------------------------------------------------------------------------
(* The frontend: the ScoutingApp component in demo mode *)

\* JavaScript's null
null == [null |-> TRUE]

\* the component's state when it mounts: the useState initial values
Mounted ==
  [currentUser |-> null, currentView |-> "login", teams |-> <<>>, players |-> <<>>,
   scoutingReports |-> <<>>, selectedTeam |-> null, selectedPlayer |-> null,
   editingReport |-> null, loading |-> FALSE, error |-> "", authToken |-> null,
   userData |-> null]

----------------------------------------------------------------------------
(* Initial state: an empty database and uploads directory (part_000:39-50)  *)

Init ==
  /\ users = {}
  /\ teams = {}
  /\ players = {}
  /\ reports = {}
  /\ files = {}
  /\ nextId = [user |-> 1, team |-> 1, player |-> 1, report |-> 1, file |-> 1]
  /\ req = [s \in Slots |-> Idle]
  /\ now = 0
  /\ hits = [lim \in Limiters |-> [ip \in Clients |-> NoHits]]
  /\ seen = [lim \in Limiters |-> [ip \in Clients |-> NoSeen]]
  /\ stamp = [s \in Slots |-> NoStamp]
  /\ expired = [s \in Slots |-> NoExpiry]
  /\ App = Mounted
  /\ timers = <<>>

----------------------------------------------------------------------------
(* The auth service alone, requests one at a time *)

AuthRequests ==
  [op : {"register"}, auth : {NoHeader}, id : {NoId},
   body : [email : Emails, password : Passwords, registrationCode : Codes]]
  \cup
  [op : {"login"}, auth : {NoHeader}, id : {NoId},
   body : [email : Emails, password : Passwords]]

\* the steps of the auth handlers; DbOk holds the outcomes a database call may have
AuthSteps(s, DbOk) ==
  \/ \E dbOk \in DbOk : RegisterFindOne(s, dbOk)
  \/ \E salt \in Salts : RegisterHash(s, salt)
  \/ \E dbOk \in DbOk : RegisterSave(s, dbOk)
  \/ \E dbOk \in DbOk : LoginFindOne(s, dbOk)
  \/ LoginCompare(s)

NextAuth ==
  \/ /\ InFlight = {}
     /\ \E r \in AuthRequests, full \in {"none", "general", "auth", "register"} :
          Arrive(1, r, full)
  \/ \E s \in Slots : AuthSteps(s, BOOLEAN) \/ Deliver(s)

SpecAuth == Init /\ [][NextAuth]_vars

\* register and login calls in flight together: their steps interleave
RaceRequests ==
  [op : {"register"}, auth : {NoHeader}, id : {NoId},
   body : [email : Emails, password : {"pw1"}, registrationCode : {REGISTRATION_CODE}]]
  \cup
  [op : {"login"}, auth : {NoHeader}, id : {NoId},
   body : [email : Emails, password : Passwords]]

NextAuthRace ==
  \/ \E s \in Slots, r \in RaceRequests : Arrive(s, r, "none")
  \/ \E s \in Slots : AuthSteps(s, {TRUE}) \/ Deliver(s)

SpecAuthRace == Init /\ [][NextAuthRace]_vars

----------------------------------------------------------------------------
(* The domain store and the upload handler, requests one at a time, called  *)
(* by two registered users.                                                 *)

\* the users two Register calls (a@x and b@x, password pw1) leave stored
Registered ==
  {[id |-> Oid("user", n), email |-> IF n = 1 THEN "a@x" ELSE "b@x",
    password |-> BcryptHash("pw1", "salt1"), role |-> "coach", createdAt |-> 0] :
     n \in 1..2}

InitStore ==
  /\ users = Registered
  /\ teams = {}
  /\ players = {}
  /\ reports = {}
  /\ files = {}
  /\ nextId = [user |-> 3, team |-> 1, player |-> 1, report |-> 1, file |-> 1]
  /\ req = [s \in Slots |-> Idle]
  /\ now = 0
  /\ hits = [lim \in Limiters |-> [ip \in Clients |-> NoHits]]
  /\ seen = [lim \in Limiters |-> [ip \in Clients |-> NoSeen]]
  /\ stamp = [s \in Slots |-> NoStamp]
  /\ expired = [s \in Slots |-> NoExpiry]
  /\ App = Mounted
  /\ timers = <<>>

\* the token Register or Login hands user u at second at
TokenOf(u, at) == JwtSign([userId |-> u.id, email |-> u.email], JWT_SECRET, at)

User1 == CHOOSE u \in Registered : u.id = Oid("user", 1)
User2 == CHOOSE u \in Registered : u.id = Oid("user", 2)

\* a header authenticateToken lets through: a token issued at second 0, the
\* second these specifications stay in
GoodHeader(u) == Bearer(TokenOf(u, 0))

\* headers it turns away: none, no token after the scheme, a token issued 24 h
\* ago (it expires this second), a token signed with another key
BadHeaders ==
  {NoHeader, <<"Bearer">>,
   Bearer(TokenOf(User1, 0 - TokenTTL)),
   Bearer(JwtSign([userId |-> User1.id, email |-> User1.email], "not-the-secret", 0))}

NoBody == [none |-> TRUE]

TeamBody(name) == [name |-> name, league |-> "Metro League"]

PlayerBody(teamId) ==
  [name |-> "Mike Johnson", position |-> "SS", jerseyNumber |-> "12", teamId |-> teamId]

ReportBody(playerId) ==
  [playerId |-> playerId, date |-> 20240620,
   evaluations |-> [hitting_power |-> "Average"], notes |-> "ok"]

ReportUpdate(date) ==
  [date |-> date, evaluations |-> [hitting_power |-> "Above Average"], notes |-> "better"]

Request(op, auth, id, body) == [op |-> op, auth |-> auth, id |-> id, body |-> body]

StoreSteps(s, DbOk) ==
  \/ \E dbOk \in DbOk : ListTeams(s, dbOk)
  \/ \E dbOk \in DbOk : CreateTeam(s, dbOk)
  \/ \E dbOk \in DbOk : UpdateTeam(s, dbOk)
  \/ \E dbOk \in DbOk : DeleteTeamFindAndDelete(s, dbOk)
  \/ \E dbOk \in DbOk : DeleteTeamFindPlayers(s, dbOk)
  \/ \E dbOk \in DbOk : DeleteTeamDeletePlayers(s, dbOk)
  \/ \E dbOk \in DbOk : DeleteTeamDeleteReports(s, dbOk)
  \/ \E dbOk \in DbOk : ListPlayers(s, dbOk)
  \/ \E dbOk \in DbOk : CreatePlayer(s, dbOk)
  \/ \E dbOk \in DbOk : CreatePlayerPopulate(s, dbOk)
  \/ \E dbOk \in DbOk : UpdatePlayer(s, dbOk)
  \/ \E dbOk \in DbOk : DeletePlayerFindAndDelete(s, dbOk)
  \/ \E dbOk \in DbOk : DeletePlayerDeleteReports(s, dbOk)
  \/ \E dbOk \in DbOk : ListReports(s, dbOk)
  \/ \E dbOk \in DbOk : CreateReport(s, dbOk)
  \/ \E dbOk \in DbOk : CreateReportPopulate(s, dbOk)
  \/ \E dbOk \in DbOk : UpdateReport(s, dbOk)
  \/ \E dbOk \in DbOk : DeleteReport(s, dbOk)
  \/ DeleteReportUnlink(s)

UploadSteps(s, DbOk) ==
  \/ UploadMulter(s)
  \/ \E first \in {"multer", "requestSize"} : UploadLimit(s, first)
  \/ \E dbOk \in DbOk : UploadUpdate(s, dbOk)

\* ids a caller may name: those handed out so far (of documents stored or since
\* deleted) and one no document ever had
TeamIds == Issued("team") \cup {Unknown("team")}
PlayerIds == Issued("player") \cup {Unknown("player")}
ReportIds == Issued("report") \cup {Unknown("report")}

\* what a caller may put for :id in a route: an id, or a string that is none
TeamKeys == TeamIds \cup {NotAnId}
PlayerKeys == PlayerIds \cup {NotAnId}
ReportKeys == ReportIds \cup {NotAnId}

\* Teams, players and reports: create, update, delete, list
CrudRequests(h) ==
  {Request("listTeams", h, NoId, NoBody), Request("listReports", h, NoId, NoBody)}
  \cup {Request("listPlayers", h, id, NoBody) : id \in {NoId, Oid("team", 1), NotAnId}}
  \cup {Request("createTeam", h, NoId, TeamBody(n)) : n \in Names}
  \cup {Request("updateTeam", h, id, TeamBody(n)) : id \in TeamKeys, n \in Names}
  \cup {Request("deleteTeam", h, id, NoBody) : id \in TeamKeys}
  \cup {Request("createPlayer", h, NoId, PlayerBody(t)) : t \in TeamIds}
  \cup {Request("updatePlayer", h, id, PlayerBody(t)) : id \in PlayerKeys, t \in TeamIds}
  \cup {Request("deletePlayer", h, id, NoBody) : id \in PlayerKeys}
  \cup {Request("createReport", h, NoId, ReportBody(p)) : p \in PlayerIds}
  \cup {Request("updateReport", h, id, ReportUpdate(20240621)) : id \in ReportKeys}
  \cup {Request("deleteReport", h, id, NoBody) : id \in ReportKeys}

Next ==
  \/ /\ InFlight = {}
     /\ \E r \in CrudRequests(GoodHeader(User1)) : Arrive(1, r, "none")
  \/ \E s \in Slots : StoreSteps(s, BOOLEAN) \/ Deliver(s)

Spec == InitStore /\ [][Next]_vars

\* the same requests with a database that answers every call
NextAnswered ==
  \/ /\ InFlight = {}
     /\ \E r \in CrudRequests(GoodHeader(User1)) : Arrive(1, r, "none")
  \/ \E s \in Slots : StoreSteps(s, {TRUE}) \/ Deliver(s)

SpecAnswered == InitStore /\ [][NextAnswered]_vars

----------------------------------------------------------------------------
(* Reports and their spray charts, requests one at a time *)

Png == [mimetype |-> <<"image", "png">>, originalname |-> <<"chart", ".png">>]
Pdf == [mimetype |-> <<"application", "pdf">>, originalname |-> <<"chart", ".pdf">>]

FilePart(f, size) ==
  <<[mimetype |-> f.mimetype, originalname |-> f.originalname, size |-> size]>>

\* a multipart body: no file part, or one file of a size around the two limits
UploadBodies ==
  {[file |-> <<>>]} \cup
  {[file |-> FilePart(f, n)] :
     f \in {Png, Pdf}, n \in {FileSizeLimit, FileSizeLimit + 1, RawBodyLimit + 1}}

UploadRequests(h) ==
  {Request("listReports", h, NoId, NoBody),
   Request("createReport", h, NoId, ReportBody(Unknown("player")))}
  \cup {Request("updateReport", h, id, ReportUpdate(20240621)) : id \in ReportKeys}
  \cup {Request("deleteReport", h, id, NoBody) : id \in ReportKeys}
  \cup {Request("upload", h, id, b) : id \in ReportKeys, b \in UploadBodies}

NextUpload ==
  \/ /\ InFlight = {}
     /\ \E r \in UploadRequests(GoodHeader(User1)) : Arrive(1, r, "none")
  \/ \E s \in Slots :
       \/ \E dbOk \in BOOLEAN : ListReports(s, dbOk)
       \/ \E dbOk \in BOOLEAN : CreateReport(s, dbOk)
       \/ \E dbOk \in BOOLEAN : CreateReportPopulate(s, dbOk)
       \/ \E dbOk \in BOOLEAN : UpdateReport(s, dbOk)
       \/ \E dbOk \in BOOLEAN : DeleteReport(s, dbOk)
       \/ DeleteReportUnlink(s)
       \/ UploadSteps(s, BOOLEAN)
       \/ Deliver(s)

SpecUpload == InitStore /\ [][NextUpload]_vars

\* uploads, report updates and deletes in flight together
UploadRaceRequests(h) ==
  {Request("createReport", h, NoId, ReportBody(Unknown("player")))}
  \cup {Request("updateReport", h, Oid("report", 1), ReportUpdate(20240621))}
  \cup {Request("deleteReport", h, id, NoBody) : id \in Issued("report")}
  \cup {Request("upload", h, id, [file |-> FilePart(Png, FileSizeLimit)]) :
          id \in Issued("report")}

NextUploadRace ==
  \/ \E s \in Slots, r \in UploadRaceRequests(GoodHeader(User1)) : Arrive(s, r, "none")
  \/ \E s \in Slots :
       \/ CreateReport(s, TRUE)
       \/ CreateReportPopulate(s, TRUE)
       \/ UpdateReport(s, TRUE)
       \/ DeleteReport(s, TRUE)
       \/ DeleteReportUnlink(s)
       \/ UploadMulter(s)
       \/ \E dbOk \in BOOLEAN : UploadUpdate(s, dbOk)
       \/ Deliver(s)

SpecUploadRace == InitStore /\ [][NextUploadRace]_vars

----------------------------------------------------------------------------
(* Reports deleted while files of uploads/ go missing from outside the      *)
(* server; handlers run one at a time, answers wait to be picked up         *)

\* uploads/ is the volume backend_uploads (docker-compose.yml:36), restored
\* apart from the database (backup.sh:90): a file of it disappears
LoseFile(f) ==
  /\ f \in files
  /\ files' = files \ {f}
  /\ UNCHANGED <<users, teams, players, reports, nextId, req, now, limiterVars, expired, frontendVars>>

LossRequests(h) ==
  {Request("createReport", h, NoId, ReportBody(Unknown("player")))}
  \cup {Request("deleteReport", h, id, NoBody) : id \in ReportIds}
  \cup {Request("upload", h, id, [file |-> FilePart(Png, FileSizeLimit)]) :
          id \in Issued("report")}

NextLoss ==
  \/ /\ \A s \in Slots : req[s].pc \in {"idle", "done"}
     /\ Cardinality({s \in Slots : IsDone(s)}) <= 1
     /\ \E s \in Slots, r \in LossRequests(GoodHeader(User1)) : Arrive(s, r, "none")
  \/ \E s \in Slots :
       \/ CreateReport(s, TRUE)
       \/ CreateReportPopulate(s, TRUE)
       \/ DeleteReport(s, TRUE)
       \/ DeleteReportUnlink(s)
       \/ UploadMulter(s)
       \/ \E dbOk \in BOOLEAN : UploadUpdate(s, dbOk)
       \/ Deliver(s)
  \/ \E f \in files : LoseFile(f)

SpecLoss == InitStore /\ [][NextLoss]_vars

----------------------------------------------------------------------------
(* Reports written and read back; handlers run one at a time, one answer    *)
(* may wait to be picked up while the next request is made                  *)

\* a body of POST /api/reports with every field of the caller's choosing
ReportBodyOf(playerId, date, rating, notes) ==
  [playerId |-> playerId, date |-> date,
   evaluations |-> [hitting_power |-> rating], notes |-> notes]

ReadBackRequests(h) ==
  {Request("createReport", h, NoId, ReportBodyOf(Unknown("player"), b[1], b[2], b[3])) :
     b \in {<<20240620, "Average", "ok">>, <<20240622, "Well Above Average", "">>,
            <<20240622, "Average", "">>}}
  \cup {Request("updateReport", h, Oid("report", 1), ReportUpdate(20240621))}
  \cup {Request("listReports", h, id, NoBody) : id \in {NoId, Unknown("player")}}

NextReadBack ==
  \/ /\ \A s \in Slots : req[s].pc \in {"idle", "done"}
     /\ Cardinality({s \in Slots : IsDone(s)}) <= 1
     /\ \E s \in Slots, r \in ReadBackRequests(GoodHeader(User1)) :
          /\ r.op = "createReport" => Cardinality(reports) < MaxScouted
          /\ Arrive(s, r, "none")
  \/ \E s \in Slots :
       \/ \E dbOk \in BOOLEAN : CreateReport(s, dbOk)
       \/ CreateReportPopulate(s, TRUE)
       \/ UpdateReport(s, TRUE)
       \/ ListReports(s, TRUE)
       \/ Deliver(s)

SpecReadBack == InitStore /\ [][NextReadBack]_vars

----------------------------------------------------------------------------
(* Handlers that may stall at an await (the database does not answer) while *)
(* the timer of timeoutMiddleware runs; requests in flight together         *)

TimeoutRequests(h) ==
  {Request("createTeam", h, NoId, TeamBody("n1")),
   Request("createPlayer", h, NoId, PlayerBody(Oid("team", 1))),
   Request("deleteTeam", h, Oid("team", 1), NoBody)}

NextTimeout ==
  \/ \E s \in Slots, r \in TimeoutRequests(GoodHeader(User1)) : Arrive(s, r, "none")
  \/ \E s \in Slots :
       \/ CreateTeam(s, TRUE)
       \/ CreatePlayer(s, TRUE)
       \/ CreatePlayerPopulate(s, TRUE)
       \/ DeleteTeamFindAndDelete(s, TRUE)
       \/ DeleteTeamFindPlayers(s, TRUE)
       \/ DeleteTeamDeletePlayers(s, TRUE)
       \/ DeleteTeamDeleteReports(s, TRUE)
       \/ Timeout(s)
       \/ Deliver(s)
       \/ Drop(s)
  \/ Crash

\* a handler's next step may never come; a timer that is set does fire, and an
\* exception nobody handles does end the process
SpecTimeout ==
  /\ InitStore /\ [][NextTimeout]_vars
  /\ \A s \in Slots : WF_vars(Timeout(s))
  /\ WF_vars(Crash)

----------------------------------------------------------------------------
(* Cascading deletes in flight together with creations and updates by       *)
(* another caller; every request names documents stored when it is made,    *)
(* and there is one team                                                    *)

CascadeRaceRequests(h) ==
  {Request("createTeam", h, NoId, TeamBody("n1")) : x \in {1} \cap {nextId.team}}
  \cup {Request("createPlayer", h, NoId, PlayerBody(t.id)) : t \in teams}
  \cup {Request("updatePlayer", h, p.id, PlayerBody(t.id)) : p \in players, t \in teams}
  \cup {Request("createReport", h, NoId, ReportBody(p.id)) : p \in players}
  \cup {Request("deleteTeam", h, t.id, NoBody) : t \in teams}
  \cup {Request("deletePlayer", h, p.id, NoBody) : p \in players}

\* the caller of the requests in slot s
CallerOf(s) == IF s = 1 THEN User1 ELSE User2

NextCascadeRace ==
  \/ \E s \in Slots :
       \E r \in CascadeRaceRequests(GoodHeader(CallerOf(s))) : Arrive(s, r, "none")
  \/ \E s \in Slots :
       \/ CreateTeam(s, TRUE)
       \/ CreatePlayer(s, TRUE)
       \/ CreatePlayerPopulate(s, TRUE)
       \/ UpdatePlayer(s, TRUE)
       \/ CreateReport(s, TRUE)
       \/ CreateReportPopulate(s, TRUE)
       \/ DeleteTeamFindAndDelete(s, TRUE)
       \/ DeleteTeamFindPlayers(s, TRUE)
       \/ DeleteTeamDeletePlayers(s, TRUE)
       \/ DeleteTeamDeleteReports(s, TRUE)
       \/ DeletePlayerFindAndDelete(s, TRUE)
       \/ DeletePlayerDeleteReports(s, TRUE)
       \/ Deliver(s)

SpecCascadeRace == InitStore /\ [][NextCascadeRace]_vars

----------------------------------------------------------------------------
(* Uploads to the same reports in flight together, the database answering   *)

TwoUploadsRequests(h) ==
  {Request("createReport", h, NoId, ReportBody(Unknown("player"))) :
     x \in {1} \cap {nextId.report}}
  \cup {Request("upload", h, id, [file |-> FilePart(Png, FileSizeLimit)]) :
          id \in Issued("report")}

NextTwoUploads ==
  \/ \E s \in Slots, r \in TwoUploadsRequests(GoodHeader(User1)) : Arrive(s, r, "none")
  \/ \E s \in Slots :
       \/ CreateReport(s, TRUE)
       \/ CreateReportPopulate(s, TRUE)
       \/ UploadMulter(s)
       \/ UploadUpdate(s, TRUE)
       \/ Deliver(s)

SpecTwoUploads == InitStore /\ [][NextTwoUploads]_vars

----------------------------------------------------------------------------
(* Every route behind authenticateToken, called with and without a valid    *)
(* token, requests one at a time                                            *)

\* one call of every route, on the first document of each collection
GateRequests(h) ==
  {Request("listTeams", h, NoId, NoBody),
   Request("createTeam", h, NoId, TeamBody("n1")),
   Request("updateTeam", h, Oid("team", 1), TeamBody("n2")),
   Request("deleteTeam", h, Oid("team", 1), NoBody),
   Request("listPlayers", h, NoId, NoBody),
   Request("createPlayer", h, NoId, PlayerBody(Oid("team", 1))),
   Request("updatePlayer", h, Oid("player", 1), PlayerBody(Oid("team", 2))),
   Request("deletePlayer", h, Oid("player", 1), NoBody),
   Request("listReports", h, NoId, NoBody),
   Request("createReport", h, NoId, ReportBody(Oid("player", 1))),
   Request("updateReport", h, Oid("report", 1), ReportUpdate(20240621)),
   Request("deleteReport", h, Oid("report", 1), NoBody),
   Request("upload", h, Oid("report", 1), [file |-> FilePart(Png, FileSizeLimit)]),
   Request("upload", h, Oid("report", 1), [file |-> FilePart(Png, FileSizeLimit + 1)])}

NextGate ==
  \/ /\ InFlight = {}
     /\ \E h \in {GoodHeader(User1), GoodHeader(User2)} \cup BadHeaders :
          \E r \in GateRequests(h), full \in {"none", "general", "upload"} :
            Arrive(1, r, full)
  \/ \E s \in Slots : StoreSteps(s, {TRUE}) \/ UploadSteps(s, {TRUE}) \/ Deliver(s)

SpecGate == InitStore /\ [][NextGate]_vars

----------------------------------------------------------------------------
(* Reports written by two scouts while the clock moves, requests one at a   *)
(* time; the bodies carry more than the handlers ask for                    *)

\* a body of POST /api/reports that names a scout as well
ReportBodyBy(playerId, scoutId) ==
  [playerId |-> playerId, scoutId |-> scoutId, date |-> 20240620,
   evaluations |-> [hitting_power |-> "Average"], notes |-> "ok"]

\* a body of PUT /api/reports/:id that names the fields the route leaves alone
ReportUpdateAll(date, playerId, scoutId) ==
  [date |-> date, evaluations |-> [hitting_power |-> "Above Average"], notes |-> "better",
   id |-> Unknown("report"), playerId |-> playerId, scoutId |-> scoutId,
   createdAt |-> 19700101]

Scouts == {User1.id, User2.id}

ScoutRequests(h) ==
  {Request("createReport", h, NoId, ReportBodyBy(Unknown("player"), u)) : u \in Scouts}
  \cup {Request("updateReport", h, Oid("report", 1),
                 ReportUpdateAll(20240621, Oid("player", 1), u)) : u \in Scouts}
  \cup {Request("upload", h, Oid("report", 1), [file |-> FilePart(Png, FileSizeLimit)])}

NextScouts ==
  \/ /\ InFlight = {}
     /\ \E h \in {GoodHeader(User1), GoodHeader(User2)} :
          \E r \in ScoutRequests(h) :
            /\ r.op = "createReport" => Cardinality(reports) < MaxScouted
            /\ Arrive(1, r, "none")
  \/ \E s \in Slots :
       \/ \E dbOk \in BOOLEAN : CreateReport(s, dbOk)
       \/ CreateReportPopulate(s, TRUE)
       \/ \E dbOk \in BOOLEAN : UpdateReport(s, dbOk)
       \/ UploadMulter(s)
       \/ \E dbOk \in BOOLEAN : UploadUpdate(s, dbOk)
       \/ Deliver(s)
  \/ InFlight = {} /\ Tick

SpecScouts == InitStore /\ [][NextScouts]_vars

----------------------------------------------------------------------------
(* The limiters in front of the routes: two clients, requests one at a time *)

Client1 == "10.0.0.1"
Client2 == "10.0.0.2"

LoginRequest(email, password) ==
  Request("login", NoHeader, NoId, [email |-> email, password |-> password])

\* the first client logs in and lists teams, the second only logs in
LimitedRequests(ip) ==
  {LoginRequest("a@x", "pw1")} \cup
  (IF ip = Client1 THEN {Request("listTeams", GoodHeader(User1), NoId, NoBody)} ELSE {})

LimitedSteps(s) ==
  \/ LoginFindOne(s, TRUE)
  \/ LoginCompare(s)
  \/ ListTeams(s, TRUE)
  \/ Deliver(s)

\* a burst: every request falls in the same moment
NextFlood ==
  \/ /\ InFlight = {}
     /\ \E ip \in Clients : \E r \in LimitedRequests(ip) : ArriveCounted(1, r, ip)
  \/ \E s \in Slots : LimitedSteps(s)

SpecFlood == InitStore /\ [][NextFlood]_vars

\* logins spread over time
NextWindow ==
  \/ /\ InFlight = {}
     /\ \E ip \in Clients : ArriveCounted(1, LoginRequest("a@x", "pw1"), ip)
  \/ \E s \in Slots : LoginFindOne(s, TRUE) \/ LoginCompare(s) \/ Deliver(s)
  \/ InFlight = {} /\ Tick

SpecWindow == InitStore /\ [][NextWindow]_vars

----------------------------------------------------------------------------
(* Claims about the auth service *)

InvalidCredentials == [status |-> 400, body |-> [message |-> "Invalid credentials"]]

\* some user of us has this email and this password
CredentialsMatch(us, email, password) ==
  \E u \in us : u.email = email /\ BcryptCompare(password, u.password)

DoneOp(s, op) == IsDone(s) /\ req[s].in.op = op

\* C4: a login whose credentials match no stored user (the email is unknown, or
\* the email is stored and the password is wrong) is answered with one and the
\* same response, 400 "Invalid credentials", whichever of the two it was.
C4_LoginFailureUniform ==
  \A s \in Slots :
    (/\ DoneOp(s, "login")
     /\ req[s].pre.users = users
     /\ ~CredentialsMatch(users, req[s].in.body.email, req[s].in.body.password))
    => req[s].res = InvalidCredentials

\* two answered logins, one for an unknown email and one with a wrong password
\* for a stored email, carrying the same response
C4_Witness ==
  \E s, t \in Slots :
    /\ DoneOp(s, "login") /\ DoneOp(t, "login")
    /\ \A u \in users : u.email # req[s].in.body.email
    /\ \E u \in users : /\ u.email = req[t].in.body.email
                        /\ ~BcryptCompare(req[t].in.body.password, u.password)
    /\ req[s].res = req[t].res
    /\ req[s].res.status = 400

\* C5: a Register call that reaches the handler with a registrationCode other than
\* the shared secret is answered 400 "Invalid registration code" and stores no
\* User, whatever its email and password.
C5_WrongCodeRejected ==
  \A s \in Slots :
    (/\ DoneOp(s, "register")
     /\ req[s].in.body.registrationCode # REGISTRATION_CODE
     /\ req[s].res.status # 429)
    => /\ req[s].res = [status |-> 400, body |-> [message |-> "Invalid registration code"]]
       /\ users = req[s].pre.users

\* a wrong-code Register for an email that is already stored, answered
C5_Witness ==
  \E s \in Slots :
    /\ DoneOp(s, "register")
    /\ req[s].in.body.registrationCode # REGISTRATION_CODE
    /\ \E u \in users : u.email = req[s].in.body.email
    /\ req[s].res.status = 400

\* C6 (as claimed): every Register call with the correct code that does not create
\* its User fails with DuplicateUser, 400 "User already exists", also when the
\* calls' steps interleave.
C6_LoserGetsDuplicateUser ==
  \A s \in Slots :
    (/\ DoneOp(s, "register")
     /\ req[s].in.body.registrationCode = REGISTRATION_CODE
     /\ req[s].res.status # 201)
    => req[s].res = [status |-> 400, body |-> [message |-> "User already exists"]]

\* C7: the token of a 201 Register embeds the id and email of the User that call
\* stored, and the token of a 200 Login embeds the id and email of the stored
\* User with the presented email and password; either token verifies.
C7_TokenIdentity ==
  \A s \in Slots :
    /\ (DoneOp(s, "register") /\ req[s].res.status = 201)
       => \E u \in users \ req[s].pre.users :
            /\ u.email = req[s].in.body.email
            /\ BcryptCompare(req[s].in.body.password, u.password)
            /\ req[s].res.body.token.userId = u.id
            /\ req[s].res.body.token.email = u.email
            /\ req[s].res.body.user = PublicUser(u)
            /\ JwtVerify(req[s].res.body.token, JWT_SECRET, NowSec)
    /\ (DoneOp(s, "login") /\ req[s].res.status = 200)
       => \E u \in users :
            /\ u.email = req[s].in.body.email
            /\ BcryptCompare(req[s].in.body.password, u.password)
            /\ req[s].res.body.token.userId = u.id
            /\ req[s].res.body.token.email = u.email
            /\ req[s].res.body.user = PublicUser(u)
            /\ JwtVerify(req[s].res.body.token, JWT_SECRET, NowSec)

\* a successful Login of the second registered user
C7_Witness ==
  \E s \in Slots :
    /\ DoneOp(s, "login")
    /\ req[s].res.status = 200
    /\ req[s].res.body.token.userId = Oid("user", 2)
    /\ Cardinality(users) = 2

----------------------------------------------------------------------------
(* Claims about the domain store *)

Ok(s) == req[s].res.status = 200

\* the players of team id among ps
PlayersOf(ps, id) == {p \in ps : p.teamId = id}

\* C1: when DeleteTeam(id) of a stored team has answered 200, the team is gone,
\* no stored player has teamId = id and no stored report has the playerId of a
\* player that belonged to the team when the call arrived.
C1_DeleteTeamCascades ==
  \A s \in Slots :
    (DoneOp(s, "deleteTeam") /\ Ok(s))
    => /\ \E t \in req[s].pre.teams : t.id = req[s].in.id
       /\ \A t \in teams : t.id # req[s].in.id
       /\ PlayersOf(players, req[s].in.id) = {}
       /\ \A r \in reports :
            r.playerId \notin {p.id : p \in PlayersOf(req[s].pre.players, req[s].in.id)}

\* a team deleted that had two players and a report of one of them
C1_Witness ==
  \E s \in Slots :
    /\ DoneOp(s, "deleteTeam") /\ Ok(s)
    /\ Cardinality(PlayersOf(req[s].pre.players, req[s].in.id)) = 2
    /\ \E r \in req[s].pre.reports :
         r.playerId \in {p.id : p \in PlayersOf(req[s].pre.players, req[s].in.id)}

\* C2: when DeletePlayer(id) of a stored player has answered 200, that player and
\* exactly the reports with playerId = id are gone; the teams, the other players,
\* the other reports, the users and the files are as they were.
C2_DeletePlayerCascades ==
  \A s \in Slots :
    (DoneOp(s, "deletePlayer") /\ Ok(s))
    => /\ \E p \in req[s].pre.players : p.id = req[s].in.id
       /\ players = {p \in req[s].pre.players : p.id # req[s].in.id}
       /\ reports = {r \in req[s].pre.reports : r.playerId # req[s].in.id}
       /\ teams = req[s].pre.teams
       /\ users = req[s].pre.users
       /\ files = req[s].pre.files

\* a player deleted that had a report, beside another player who has one too
C2_Witness ==
  \E s \in Slots :
    /\ DoneOp(s, "deletePlayer") /\ Ok(s)
    /\ \E r \in req[s].pre.reports : r.playerId = req[s].in.id
    /\ \E p \in players : \E r \in reports : r.playerId = p.id

\* the answers authenticateToken and the limiters in front of it give
Rejections(r) ==
  {[status |-> IF Len(r.auth) < 2 THEN 401 ELSE 403,
    body |-> AuthBody(IF Len(r.auth) < 2 THEN 401 ELSE 403)]}
  \cup {[status |-> 429, body |-> RateLimitBody(lim)] : lim \in RouteLimiters(r.op)}

\* C3: a call of a team, player, report or upload route whose header carries no
\* token, an expired token or a token signed with another key never enters its
\* handler: it is answered at once, 401 without a token and 403 with a bad one
\* (429 if a limiter turned it away first), the answer carries a fixed message
\* only, and users, teams, players, reports and files are as before the call.
C3_TokenGate ==
  \A s \in Slots :
    (/\ req[s].pc # "idle"
     /\ req[s].in.op \notin {"register", "login"}
     /\ req[s].in.auth \in BadHeaders)
    => /\ IsDone(s)
       /\ req[s].res \in Rejections(req[s].in)
       /\ Snapshot = req[s].pre

\* an upload with an expired token turned away while a team, a report and a
\* spray chart are stored
C3_Witness ==
  \E s \in Slots :
    /\ DoneOp(s, "upload")
    /\ req[s].in.auth = Bearer(TokenOf(User1, 0 - TokenTTL))
    /\ req[s].res.status = 403
    /\ teams # {} /\ reports # {} /\ files # {}

----------------------------------------------------------------------------
(* Claims about the upload handler *)

HasFile(s) == req[s].in.body.file # <<>>

IsImage(s) == req[s].in.body.file[1].mimetype[1] = "image"

C9_NonImageIsClientError ==
  \A s \in Slots :
    (DoneOp(s, "upload") /\ HasFile(s) /\ ~IsImage(s))
    => /\ req[s].res.status \in 400..499
       /\ req[s].res.body # [error |-> "Internal server error"]

\* C10: an image larger than 5 MB is answered "File too large" (400 from multer's
\* LIMIT_FILE_SIZE, or 413 when the body also passes 10 MB), and the uploads
\* directory and the reports are as they were before the call.
C10_TooLargeRejected ==
  \A s \in Slots :
    (/\ DoneOp(s, "upload") /\ HasFile(s) /\ IsImage(s)
     /\ req[s].in.body.file[1].size > FileSizeLimit)
    => /\ req[s].res.body = [error |-> "File too large"]
       /\ req[s].res.status \in {400, 413}
       /\ req[s].in.body.file[1].size <= RawBodyLimit => req[s].res.status = 400
       /\ files = req[s].pre.files
       /\ reports = req[s].pre.reports

\* an image one byte over the limit refused for a stored report that has a spray
\* chart already
C10_Witness ==
  \E s \in Slots :
    /\ DoneOp(s, "upload")
    /\ req[s].in.body.file = FilePart(Png, FileSizeLimit + 1)
    /\ req[s].res.status = 400
    /\ \E r \in reports : r.id = req[s].in.id /\ r.sprayChartUrl # NoUrl
    /\ nextId.file = 3

----------------------------------------------------------------------------
(* Claims about spray charts and the uploads directory *)

\* the file a report's sprayChartUrl names
ChartOf(r) == Basename(r.sprayChartUrl)

----------------------------------------------------------------------------
(* Claims about the limiters *)

\* the request in slot s went through the limiters
Counted(s) == req[s].pc # "idle" /\ stamp[s].ip # ""

\* the limiters of its route for which the request in slot s is past the max,
\* counted from the client's first request on for the window's length
PastMax(s) ==
  {lim \in RouteLimiters(req[s].in.op) : stamp[s].nth[lim] > Ceiling(lim)}

\* the limiters of its route for which it is within the max
WithinMax(s) ==
  {lim \in RouteLimiters(req[s].in.op) :
     stamp[s].nth[lim] >= 1 /\ stamp[s].nth[lim] <= Ceiling(lim)}

\* C12: counted from a client's first request, within the window's 15 minutes the
\* first 5 logins pass the login limiter and the 6th is answered 429, and the first
\* 100 requests to /api pass the general limiter and the 101st is answered 429; a
\* request past a max is answered by the limiter at arrival, is never in a
\* handler step and leaves users, teams, players, reports and files as they were.
C12_FirstAdmittedNextRefused ==
  \A s \in Slots :
    Counted(s) =>
      /\ (IsDone(s) /\ req[s].res.status = 429)
         => req[s].res.body \notin {RateLimitBody(lim) : lim \in WithinMax(s)}
      /\ PastMax(s) # {}
         => /\ IsDone(s)
            /\ req[s].res.status = 429
            /\ Snapshot = req[s].pre

\* the 101st request of the first client refused by the general limiter after its
\* 6th login was refused by the login limiter and five were let through
C12_Witness ==
  /\ DoneOp(1, "listTeams")
  /\ stamp[1].nth["general"] = 101
  /\ req[1].res = [status |-> 429, body |-> RateLimitBody("general")]
  /\ seen["auth"][Client1].asked = 6
  /\ Len(seen["auth"][Client1].admitted) = 5

\* the limiter that answered the request in slot s
RefusedBy(s) ==
  {lim \in Limiters : req[s].res.body.error = LimiterMessage(lim)}

\* milliseconds from the request's arrival to the end of the window limiter lim
\* counted it in
Remaining(s, lim) == stamp[s].ends[lim] - stamp[s].at

\* C13 (as claimed): the retryAfter of a 429 is the time left until the window that
\* refused the request ends, in seconds (to the second), not the window's length.
C13_RetryAfterIsRemaining ==
  \A s \in Slots :
    (Counted(s) /\ IsDone(s) /\ req[s].res.status = 429)
    => \A lim \in RefusedBy(s) :
         /\ req[s].res.body.retryAfter * 1000 > Remaining(s, lim) - 1000
         /\ req[s].res.body.retryAfter * 1000 < Remaining(s, lim) + 1000

\* C14 (as claimed): for every limiter and client, no interval of the window's
\* length holds more than the max of requests let through (of the last max + 1
\* let through, the first is at least a window older than the last); and a client
\* is refused only on its own count: max of its own requests were let through
\* within the window's length before the refused one.
C14_SlidingWindowPerClient ==
  /\ \A lim \in Limiters, ip \in Clients :
       LET a == seen[lim][ip].admitted
       IN Len(a) > Ceiling(lim)
          => a[Len(a)] - a[Len(a) - Ceiling(lim)] >= LimiterWindowMs(lim)
  /\ \A s \in Slots :
       (Counted(s) /\ IsDone(s) /\ req[s].res.status = 429)
       => \A lim \in RefusedBy(s) :
            LET a == seen[lim][stamp[s].ip].admitted
            IN /\ Len(a) >= Ceiling(lim)
               /\ stamp[s].at - a[Len(a) - Ceiling(lim) + 1] < LimiterWindowMs(lim)

----------------------------------------------------------------------------
(* Claims about the fields of a report *)

\* the identity in the token of the request in slot s
Caller(s) == req[s].in.auth[2].userId

\* C15: a CreateReport answered 201 has stored one report, and its scoutId is the
\* userId of the caller's token, whatever scoutId the body names.
C15_ScoutIsCaller ==
  \A s \in Slots :
    (DoneOp(s, "createReport") /\ req[s].res.status = 201)
    => /\ Cardinality(reports \ req[s].pre.reports) = 1
       /\ \A r \in reports \ req[s].pre.reports :
            /\ r.id = req[s].res.body.id
            /\ r.scoutId = Caller(s)
            /\ req[s].res.body.scoutId = PopulateUser(Caller(s))

\* the second user's report stored under the second user although the body
\* named the first
C15_Witness ==
  \E s \in Slots :
    /\ DoneOp(s, "createReport") /\ req[s].res.status = 201
    /\ Caller(s) = User2.id
    /\ req[s].in.body.scoutId = User1.id
    /\ \E r \in reports : r.scoutId = User2.id

\* the step is handler step pc of some request, and it answers
Answers(pc) == \E s \in Slots : req[s].pc = pc /\ req'[s].pc = "done"

\* C16: no step changes the playerId, scoutId or createdAt of a stored report, and
\* the answering steps of UpdateReport and AttachSprayChart leave the set of
\* report ids as it was, whoever calls and whatever the body names.
C16_ImmutableFields ==
  [][/\ \A r \in reports : \A n \in reports' :
          n.id = r.id => /\ n.playerId = r.playerId
                         /\ n.scoutId = r.scoutId
                         /\ n.createdAt = r.createdAt
     /\ (Answers("updateReport") \/ Answers("upload_update"))
        => {n.id : n \in reports'} = {r.id : r \in reports}]_vars

\* the first user's report, updated by the second user with a body that names
\* another player and scout, and given a spray chart, later than it was created
C16_Witness ==
  \E s \in Slots :
    /\ DoneOp(s, "updateReport") /\ Ok(s)
    /\ Caller(s) = User2.id
    /\ req[s].in.body.scoutId = User2.id
    /\ \E r \in reports : /\ r.id = req[s].in.id
                           /\ r.scoutId = User1.id
                           /\ r.playerId = Unknown("player")
                           /\ r.sprayChartUrl # NoUrl
                           /\ r.createdAt < r.updatedAt

\* C17 (as claimed): after an UpdateReport answered 200 the report's updatedAt is
\* later than its createdAt.
C17_UpdatedAtLater ==
  \A s \in Slots :
    (DoneOp(s, "updateReport") /\ Ok(s))
    => \A r \in reports : r.id = req[s].in.id => r.updatedAt > r.createdAt

\* C17 (amended): the answering step of an UpdateReport that finds the report sets
\* its updatedAt to the clock's reading at that step and leaves createdAt alone:
\* updatedAt is never earlier than createdAt, and later exactly if the clock has
\* moved on since the report was created.
C17_UpdatedAtIsUpdateTime ==
  [][\A s \in Slots :
       (req[s].pc = "updateReport" /\ req'[s].pc = "done" /\ req'[s].res.status = 200)
       => \E r \in reports : \E n \in reports' :
            /\ r.id = req[s].in.id /\ n.id = r.id
            /\ n.updatedAt = now
            /\ n.createdAt = r.createdAt
            /\ n.updatedAt >= n.createdAt
            /\ (n.updatedAt > n.createdAt) = (now > r.createdAt)]_vars

\* a report updated two steps of the clock after it was created
C17_Witness ==
  \E s \in Slots :
    /\ DoneOp(s, "updateReport") /\ Ok(s)
    /\ \E r \in reports : /\ r.id = req[s].in.id
                           /\ r.updatedAt = r.createdAt + 2 * TickMs

----------------------------------------------------------------------------
(* Claims about ids that name nothing *)

\* the documents of the collection that route op works on, in snapshot sn
Targets(sn, op) ==
  IF op \in {"updateTeam", "deleteTeam"} THEN sn.teams
  ELSE IF op \in {"updatePlayer", "deletePlayer"} THEN sn.players
  ELSE sn.reports

ByIdOps ==
  {"updateTeam", "deleteTeam", "updatePlayer", "deletePlayer", "updateReport", "deleteReport"}

\* the request answered in slot s named no document of its collection
NamedNone(s) ==
  /\ IsDone(s) /\ req[s].in.op \in ByIdOps
  /\ \A d \in Targets(req[s].pre, req[s].in.op) : d.id # req[s].in.id

\* C18: an update or delete of a team, player or report whose id matches no stored
\* document of that collection is answered 404, and teams, players, reports and
\* files are as they were (no cascade runs).
C18_UnknownIdNotFound ==
  \A s \in Slots :
    NamedNone(s) => /\ req[s].res.status = 404
                    /\ Snapshot = req[s].pre

----------------------------------------------------------------------------
(* Claims about deleting a report *)

\* the report that the deleteReport answered in slot s named, as it was stored
Deleted(s) == {r \in req[s].pre.reports : r.id = req[s].in.id}

\* C19: a DeleteReport of a stored report (the database answering) is answered 200
\* whether or not the file its sprayChartUrl names was still in uploads/; after it
\* the report is not stored and the file it named is not in uploads/.
C19_DeleteReportRemovesFile ==
  \A s \in Slots :
    (DoneOp(s, "deleteReport") /\ Deleted(s) # {})
    => /\ req[s].res.status = 200
       /\ \A r \in Deleted(s) :
            /\ \A n \in reports : n.id # r.id
            /\ r.sprayChartUrl # NoUrl => ChartOf(r) \notin files

\* two deletes answered 200: one found its report's file and removed it, the
\* other's file had gone missing before the request came
C19_Witness ==
  \E s, t \in Slots :
    /\ DoneOp(s, "deleteReport") /\ Ok(s)
    /\ DoneOp(t, "deleteReport") /\ Ok(t)
    /\ \E r \in Deleted(s) : r.sprayChartUrl # NoUrl /\ ChartOf(r) \in req[s].pre.files
    /\ \E r \in Deleted(t) : r.sprayChartUrl # NoUrl /\ ChartOf(r) \notin req[t].pre.files

----------------------------------------------------------------------------
(* Claims about who may do what *)

ReadOps == {"listTeams", "listPlayers", "listReports"}

\* the documents request r names, in snapshot sn
Target(sn, r) == {d \in Targets(sn, r.op) : d.id = r.id}

\* what request r, made at clock reading t by whoever holds a valid token, makes
\* of snapshot sn
Effect(sn, r, t) ==
  CASE r.op = "updateTeam" ->
         [sn EXCEPT !.teams = {IF d.id = r.id
                               THEN [d EXCEPT !.name = r.body.name, !.league = r.body.league]
                               ELSE d : d \in @}]
    [] r.op = "deleteTeam" ->
         [sn EXCEPT !.teams = {d \in @ : d.id # r.id},
                    !.players = {d \in @ : d.teamId # r.id},
                    !.reports = {d \in @ :
                                   d.playerId \notin {p.id : p \in PlayersOf(sn.players, r.id)}}]
    [] r.op = "updatePlayer" ->
         [sn EXCEPT !.players = {IF d.id = r.id
                                 THEN [d EXCEPT !.name = r.body.name,
                                                !.position = r.body.position,
                                                !.jerseyNumber = r.body.jerseyNumber,
                                                !.teamId = r.body.teamId]
                                 ELSE d : d \in @}]
    [] r.op = "deletePlayer" ->
         [sn EXCEPT !.players = {d \in @ : d.id # r.id},
                    !.reports = {d \in @ : d.playerId # r.id}]
    [] r.op = "updateReport" ->
         [sn EXCEPT !.reports = {IF d.id = r.id
                                 THEN [d EXCEPT !.date = CastDate(r.body.date),
                                                !.evaluations = r.body.evaluations,
                                                !.notes = r.body.notes,
                                                !.updatedAt = t]
                                 ELSE d : d \in @}]
    [] r.op = "deleteReport" ->
         [sn EXCEPT !.reports = {d \in @ : d.id # r.id},
                    !.files = @ \ {ChartOf(d) : d \in {x \in Target(sn, r) :
                                                          x.sprayChartUrl # NoUrl}}]
    [] OTHER -> sn

\* the ids of the documents a list route answered with
Listed(op, body) ==
  IF op = "listReports"
  THEN {body.docs[i].id : i \in 1..Len(body.docs)}
  ELSE {d.id : d \in body.docs}

\* C20: a read, update or delete of teams, players or reports made with any valid
\* token has an outcome that depends on the request and the stored documents
\* only, never on which user the token names: 200 with the full effect (every
\* document listed; the named document updated or deleted, with its cascade)
\* whoever created the documents, 404 only if the id names none.
C20_AnyTokenSameOutcome ==
  \A s \in Slots :
    (/\ IsDone(s)
     /\ req[s].in.op \in ReadOps \cup ByIdOps
     /\ req[s].in.auth \in {GoodHeader(User1), GoodHeader(User2)}
     /\ req[s].res.status # 429)
    => /\ req[s].res.status =
            IF req[s].in.op \in ReadOps \/ Target(req[s].pre, req[s].in) # {}
            THEN 200 ELSE 404
       /\ Snapshot = IF Target(req[s].pre, req[s].in) # {}
                      THEN Effect(req[s].pre, req[s].in, now)
                      ELSE req[s].pre
       /\ req[s].in.op \in ReadOps
          => Listed(req[s].in.op, req[s].res.body) =
               {d.id : d \in IF req[s].in.op = "listTeams" THEN teams
                              ELSE IF req[s].in.op = "listPlayers" THEN players
                              ELSE reports}

\* the second user deleting a report of the first, spray chart and all, while
\* a team of the first user is stored
C20_Witness ==
  \E s \in Slots :
    /\ DoneOp(s, "deleteReport") /\ Ok(s)
    /\ Caller(s) = User2.id
    /\ \E r \in Deleted(s) : /\ r.scoutId = User1.id
                              /\ r.sprayChartUrl # NoUrl
                              /\ ChartOf(r) \in req[s].pre.files
    /\ \E t \in teams : t.createdBy = User1.id

----------------------------------------------------------------------------
(* The health endpoint *)

\* mongoose.connection.readyState: disconnected, connected, connecting,
\* disconnecting
ReadyStates == 0..3

\* the health report and its status code: the database check sets the status
\* first, the uploads check sets it after
Health(readyState, uploadsOk) ==
  LET afterDb == IF readyState = 1
                 THEN [status |-> "OK", database |-> "connected"]
                 ELSE [status |-> "ERROR", database |-> "disconnected"]
      status == IF uploadsOk THEN afterDb.status ELSE "WARNING"
      statusCode == IF status = "OK" THEN 200 ELSE IF status = "WARNING" THEN 200 ELSE 503
  IN [status |-> statusCode,
      body |-> [status |-> status, database |-> afterDb.database,
                uploadsDirectory |-> IF uploadsOk THEN "accessible" ELSE "error"]]

\* GET /api/health: the connection's state and the uploads directory are the
\* environment's
HealthCheck(s, readyState, uploadsOk) ==
  /\ req[s].pc = "health"
  /\ LET h == Health(readyState, uploadsOk)
     IN req' = [req EXCEPT ![s] = Reply(req[s], h.status, h.body)]
  /\ UNCHANGED <<users, teams, players, reports, files, nextId, now, limiterVars, expired, frontendVars>>

\* health checks by a caller without a token, between requests on teams
HealthRequests ==
  {Request("health", NoHeader, NoId, NoBody),
   Request("listTeams", GoodHeader(User1), NoId, NoBody)}
  \cup {Request("createTeam", GoodHeader(User1), NoId, TeamBody(n)) : n \in Names}

NextHealth ==
  \/ /\ InFlight = {}
     /\ \E r \in HealthRequests : Arrive(1, r, "none")
  \/ \E s \in Slots :
       \/ \E readyState \in ReadyStates, uploadsOk \in BOOLEAN :
            HealthCheck(s, readyState, uploadsOk)
       \/ \E dbOk \in BOOLEAN : ListTeams(s, dbOk) \/ CreateTeam(s, dbOk)
       \/ Deliver(s)

SpecHealth == InitStore /\ [][NextHealth]_vars

----------------------------------------------------------------------------
(* The frontend's handlers *)

\* how many apiCall timers may be waiting at once
MaxPending == 2

\* how many reports the list on screen may hold
MaxSaved == 2

sampleTeams ==
  <<[_id |-> "1", name |-> "City Hawks", league |-> "Metro League"],
    [_id |-> "2", name |-> "Valley Eagles", league |-> "Metro League"],
    [_id |-> "3", name |-> "Mountain Lions", league |-> "Regional League"]>>

samplePlayers ==
  <<[_id |-> "1", name |-> "Mike Johnson", position |-> "SS", jerseyNumber |-> "12",
     teamId |-> "1"],
    [_id |-> "2", name |-> "Alex Rodriguez", position |-> "CF", jerseyNumber |-> "7",
     teamId |-> "1"],
    [_id |-> "3", name |-> "Sam Williams", position |-> "3B", jerseyNumber |-> "15",
     teamId |-> "2"],
    [_id |-> "4", name |-> "Chris Davis", position |-> "P", jerseyNumber |-> "21",
     teamId |-> "2"],
    [_id |-> "5", name |-> "Jordan Brown", position |-> "1B", jerseyNumber |-> "8",
     teamId |-> "3"]>>

sampleReports ==
  <<[_id |-> "1", playerId |-> "1", scoutId |-> [email |-> "coach@demo.com"],
     date |-> "2024-06-20",
     evaluations |-> [hitting_contactAbility |-> "Above Average",
                      hitting_power |-> "Average", fielding_hands |-> "Excellent",
                      fielding_range |-> "Above Average", running_speed |-> "Average"],
     notes |-> "Strong defensive player with good contact skills.",
     sprayChartUrl |-> null]>>

\* what is typed into the login form when Login is clicked
LoginForms ==
  {[email |-> "coach@demo.com", password |-> "password123"],
   [email |-> "coach@demo.com", password |-> "wrong"],
   [email |-> "", password |-> ""]}

\* the elements of array a
Elements(a) == {a[i] : i \in DOMAIN a}

\* a.filter(p => p[field] === value)
FilterBy(a, field, value) ==
  LET Keep(p) == p[field] = value IN SelectSeq(a, Keep)

\* the query string `?${key}=${id}`, and the empty one
Query(key, id) == <<key, id>>

NoQuery == <<>>

\* simulateApiResponse: what the timer of apiCall(endpoint, arg) settles the
\* promise with; arg is the request's body for /auth/login, the query string
\* for /players and /reports
simulateApiResponse(endpoint, arg) ==
  CASE endpoint = "/auth/login" ->
         IF arg.email = "coach@demo.com" /\ arg.password = "password123"
         THEN [ok |-> TRUE,
               value |-> [token |-> [prefix |-> "demo-token-", at |-> now],
                          user |-> [id |-> "demo-user", email |-> "coach@demo.com",
                                    role |-> "coach"]]]
         ELSE [ok |-> FALSE, value |-> "Invalid credentials"]
    [] endpoint = "/teams" -> [ok |-> TRUE, value |-> sampleTeams]
    [] endpoint = "/players" ->
         [ok |-> TRUE,
          value |-> IF arg # NoQuery THEN FilterBy(samplePlayers, "teamId", arg[2])
                    ELSE samplePlayers]
    [] endpoint = "/reports" ->
         [ok |-> TRUE,
          value |-> IF arg # NoQuery THEN FilterBy(sampleReports, "playerId", arg[2])
                    ELSE sampleReports]

\* apiCall(endpoint, arg) awaited by the handler named then: a timer of 500 ms
apiCall(endpoint, arg, then) == [endpoint |-> endpoint, arg |-> arg, then |-> then]

\* which of the component's views is on screen
Screen ==
  IF App.currentUser = null THEN "login"
  ELSE IF App.currentView = "dashboard" THEN "dashboard"
  ELSE IF App.currentView = "teamDetail" /\ App.selectedTeam # null THEN "teamDetail"
  ELSE IF App.currentView = "playerDetail" /\ App.selectedPlayer # null THEN "playerDetail"
  ELSE IF App.currentView = "editReport" /\ App.editingReport # null THEN "editReport"
  ELSE "nothing"

\* the views that show the Header
HeaderShown == Screen \in {"dashboard", "teamDetail", "playerDetail", "editReport"}

backendVars == <<users, teams, players, reports, files, nextId, req, now, limiterVars, expired>>

\* the Login button: handleLogin up to its await
handleLogin(form) ==
  /\ Screen = "login" /\ ~App.loading
  /\ IF form.email = "" \/ form.password = ""
     THEN /\ App' = [App EXCEPT !.error = "Please fill in all fields"]
          /\ UNCHANGED timers
     ELSE /\ Len(timers) < MaxPending
          /\ App' = [App EXCEPT !.loading = TRUE, !.error = ""]
          /\ timers' = Append(timers, apiCall("/auth/login", form, "handleLogin"))
  /\ UNCHANGED backendVars

\* the LogOut button of the Header
handleLogout ==
  /\ HeaderShown
  /\ App' = [App EXCEPT !.authToken = null, !.userData = null, !.currentUser = null,
                        !.currentView = "login", !.selectedTeam = null,
                        !.selectedPlayer = null, !.editingReport = null,
                        !.teams = <<>>, !.players = <<>>, !.scoutingReports = <<>>]
  /\ UNCHANGED <<timers, backendVars>>

\* the Teams button of the Header: setCurrentView('dashboard'); loadTeams()
TeamsOnClick ==
  /\ HeaderShown
  /\ Len(timers) < MaxPending
  /\ App' = [App EXCEPT !.currentView = "dashboard"]
  /\ timers' = Append(timers, apiCall("/teams", NoQuery, "loadTeams"))
  /\ UNCHANGED backendVars

\* the View Team button of a team of the dashboard, up to its await
ViewTeamOnClick(team) ==
  /\ Screen = "dashboard"
  /\ team \in Elements(App.teams)
  /\ Len(timers) < MaxPending
  /\ App' = [App EXCEPT !.selectedTeam = team]
  /\ timers' = Append(timers, apiCall("/players", Query("teamId", team._id), "ViewTeam"))
  /\ UNCHANGED backendVars

\* the View Player button of a player of the team on screen, up to its await
ViewPlayerOnClick(player) ==
  /\ Screen = "teamDetail"
  /\ player \in Elements(FilterBy(App.players, "teamId", App.selectedTeam._id))
  /\ Len(timers) < MaxPending
  /\ App' = [App EXCEPT !.selectedPlayer = player]
  /\ timers' = Append(timers, apiCall("/reports", Query("playerId", player._id), "ViewPlayer"))
  /\ UNCHANGED backendVars

\* the New Report button of the player's view
createNewReport ==
  /\ Screen = "playerDetail"
  /\ App' = [App EXCEPT !.editingReport =
                           [playerId |-> App.selectedPlayer._id, date |-> "today",
                            evaluations |-> <<>>, notes |-> "",
                            sprayChartUrl |-> null],
                        !.currentView = "editReport"]
  /\ UNCHANGED <<timers, backendVars>>

\* the Save Report button: the new report heads the list (demo mode, no await)
saveReport ==
  /\ Screen = "editReport" /\ ~App.loading
  /\ Len(App.scoutingReports) < MaxSaved
  /\ LET newReport == [_id |-> "report-new", playerId |-> App.editingReport.playerId,
                       scoutId |-> [email |-> App.currentUser.email],
                       date |-> App.editingReport.date,
                       evaluations |-> App.editingReport.evaluations,
                       notes |-> App.editingReport.notes,
                       sprayChartUrl |-> App.editingReport.sprayChartUrl]
     IN App' = [App EXCEPT !.scoutingReports = <<newReport>> \o @,
                           !.editingReport = null, !.currentView = "playerDetail"]
  /\ UNCHANGED <<timers, backendVars>>

\* the oldest timer runs: the promise settles and the handler that awaits it
\* goes on from its await
TimerFires ==
  /\ timers # <<>>
  /\ LET t == Head(timers)
         a == simulateApiResponse(t.endpoint, t.arg)
     IN CASE t.then = "handleLogin" ->
               IF a.ok
               THEN /\ App' = [App EXCEPT !.authToken = a.value.token,
                                          !.userData = a.value.user,
                                          !.currentUser = a.value.user,
                                          !.currentView = "dashboard", !.loading = FALSE]
                    /\ timers' = Append(Tail(timers), apiCall("/teams", NoQuery, "loadTeams"))
               ELSE /\ App' = [App EXCEPT !.error = a.value, !.loading = FALSE]
                    /\ timers' = Tail(timers)
          [] t.then = "loadTeams" ->
               /\ App' = [App EXCEPT !.teams = a.value]
               /\ timers' = Tail(timers)
          [] t.then = "ViewTeam" ->
               /\ App' = [App EXCEPT !.players = a.value, !.currentView = "teamDetail"]
               /\ timers' = Tail(timers)
          [] t.then = "ViewPlayer" ->
               /\ App' = [App EXCEPT !.scoutingReports = a.value,
                                     !.currentView = "playerDetail"]
               /\ timers' = Tail(timers)
  /\ UNCHANGED backendVars

NextFrontend ==
  \/ \E form \in LoginForms : handleLogin(form)
  \/ handleLogout
  \/ TeamsOnClick
  \/ \E team \in Elements(sampleTeams) : ViewTeamOnClick(team)
  \/ \E player \in Elements(samplePlayers) : ViewPlayerOnClick(player)
  \/ createNewReport
  \/ saveReport
  \/ TimerFires

SpecFrontend == InitStore /\ [][NextFrontend]_vars

----------------------------------------------------------------------------
(* Claims about reading a report back *)

\* the day a stored Date falls on, as the caller reads it from the JSON answer
DayOf(date) == date.day

\* slot t holds the answer to a listing made right after the report that the
\* createReport answered in slot s was stored: the report was still as created
ReadBack(s, t) ==
  /\ DoneOp(s, "createReport") /\ req[s].res.status = 201
  /\ DoneOp(t, "listReports") /\ Ok(t)
  /\ \E r \in req[t].pre.reports :
       /\ r.id = req[s].res.body.id
       /\ r.updatedAt = r.createdAt /\ DayOf(r.date) = DayOf(req[s].res.body.date)
       /\ r.evaluations = req[s].res.body.evaluations
       /\ r.notes = req[s].res.body.notes
       /\ req[t].in.id \in {NoId, r.playerId}

----------------------------------------------------------------------------
(* Claims about the request timeout *)

\* C22: every request is answered in the end, by its handler or, if the handler
\* does not come to answer, by the timer with 408 'Request timeout'.
C22_EveryRequestAnswered ==
  \A s \in Slots :
    (req[s].pc # "idle") ~> (IsDone(s) \/ (expired[s] /\ Answer(s) = TimeoutAnswer))

\* a DeleteTeam stalled after its first await and answered by the timer
C22_Witness ==
  \E s \in Slots :
    /\ req[s].pc = "deleteTeam_findPlayers"
    /\ expired[s] /\ Answer(s) = TimeoutAnswer
    /\ players # {}

\* C28: a request the timer has answered does not go on to change what is
\* stored: no later step of its handler changes users, teams, players, reports
\* or files.
C28_NoChangeAfterTimeout ==
  [][\A s \in Slots :
       (expired[s] /\ req'[s] # req[s] /\ req[s].pc # "done")
       => UNCHANGED <<users, teams, players, reports, files>>]_vars

----------------------------------------------------------------------------
(* Claims about the references between documents *)

\* C23: a CreateReport whose playerId is the id of no stored player adds no
\* report.
C23_ReportNeedsPlayer ==
  \A s \in Slots :
    (/\ DoneOp(s, "createReport")
     /\ \A p \in req[s].pre.players : p.id # req[s].in.body.playerId)
    => reports = req[s].pre.reports

\* the ids of the documents of collection coll that were stored and deleted
Gone(coll, docs) == Issued(coll) \ {d.id : d \in docs}

\* C24: when DeleteTeam and DeletePlayer calls have run together with CreatePlayer,
\* UpdatePlayer and CreateReport calls of another caller (each naming documents
\* stored when it was made) and every call has completed, no stored report has
\* the playerId of a deleted player and no stored player has the teamId of a
\* deleted team.
C24_NoDanglingAfterRace ==
  (\A s \in Slots : req[s].pc \in {"idle", "done"})
  => /\ \A r \in reports : r.playerId \notin Gone("player", players)
     /\ \A p \in players : p.teamId \notin Gone("team", teams)

----------------------------------------------------------------------------
(* Claims about the files of the upload store *)

\* the file the upload answered in slot s stored
FileOf(s) == Basename(req[s].res.body.sprayChartUrl)

\* the uploads answered in slots s and t were in flight together: neither's
\* file was on disk when the other was made
Together(s, t) ==
  /\ s # t
  /\ DoneOp(s, "upload") /\ DoneOp(t, "upload")
  /\ req[s].in.id = req[t].in.id
  /\ \A f \in files \ req[s].pre.files : f \notin req[t].pre.files
  /\ \A f \in files \ req[t].pre.files : f \notin req[s].pre.files

----------------------------------------------------------------------------
(* Claims about what a cascade leaves alone *)

\* C26: whatever a DeleteTeam(id) answers, it has removed nothing but the team id,
\* players whose teamId is id and reports of those players; every other team,
\* player and report, every user and every file is as it was.  Answered 200, it
\* has removed exactly those.
C26_DeleteTeamFrame ==
  \A s \in Slots :
    DoneOp(s, "deleteTeam")
    => LET pre == req[s].pre
           id == req[s].in.id
           own == {p.id : p \in PlayersOf(pre.players, id)}
       IN /\ users = pre.users /\ files = pre.files
          /\ {t \in pre.teams : t.id # id} \subseteq teams /\ teams \subseteq pre.teams
          /\ {p \in pre.players : p.teamId # id} \subseteq players
          /\ players \subseteq pre.players
          /\ {r \in pre.reports : r.playerId \notin own} \subseteq reports
          /\ reports \subseteq pre.reports
          /\ Ok(s) => /\ teams = {t \in pre.teams : t.id # id}
                       /\ players = {p \in pre.players : p.teamId # id}
                       /\ reports = {r \in pre.reports : r.playerId \notin own}

\* a team deleted with its player while another team and its player stay
C26_Witness ==
  \E s \in Slots :
    /\ DoneOp(s, "deleteTeam") /\ Ok(s)
    /\ PlayersOf(req[s].pre.players, req[s].in.id) # {}
    /\ \E t \in teams : PlayersOf(players, t.id) # {}

\* C27: whenever no request is being handled, every file in uploads/ is named by
\* the sprayChartUrl of a stored report.
C27_NoOrphanFile ==
  (\A s \in Slots : req[s].pc \in {"idle", "done"})
  => \A f \in files : \E r \in reports : r.sprayChartUrl # NoUrl /\ ChartOf(r) = f

\* C29: the health endpoint answers 503 with status ERROR whenever the database
\* is not connected, and answers 200 only when the database is connected.
C29_HealthErrorWhenDbDown ==
  \A s \in Slots :
    DoneOp(s, "health")
    => LET a == req[s].res
       IN /\ a.body.database # "connected" => a.status = 503 /\ a.body.status = "ERROR"
          /\ a.status = 200 => a.body.database = "connected"

\* currentUser, the token, teams, players, scoutingReports, selectedTeam,
\* selectedPlayer and editingReport are all empty, as handleLogout leaves them
LoggedOutEmpty ==
  /\ App.currentUser = null /\ App.authToken = null
  /\ App.teams = <<>> /\ App.players = <<>> /\ App.scoutingReports = <<>>
  /\ App.selectedTeam = null /\ App.selectedPlayer = null /\ App.editingReport = null

\* C30: handleLogout empties currentUser, the token, teams, players,
\* scoutingReports, selectedTeam, selectedPlayer and editingReport, and while
\* they are empty every step but the answer to a login leaves them empty, the
\* late answer to a loadTeams, loadPlayers or loadReports call included.
C30_StaysEmptyAfterLogout ==
  [][/\ (HeaderShown /\ handleLogout) => LoggedOutEmpty'
     /\ (LoggedOutEmpty /\ ~(timers # <<>> /\ Head(timers).then = "handleLogin"))
        => LoggedOutEmpty']_vars

====
